---- MODULE Spec2Model ----
(***************************************************************************)
(* A model of monkey-rs: the bytecode compiler with its symbol table, the  *)
(* stack virtual machine, the tree-walking evaluator and the REPL driver.  *)
(* Programs are abstract syntax trees (the parser's output); the compiler  *)
(* is a function from a tree and the driver's state to byte code; the      *)
(* virtual machine executes one instruction per step.                      *)
(***************************************************************************)
EXTENDS Integers, Sequences, FiniteSets, TLC

(***************************************************************************)
(* Small helpers on sequences.  Positions in the source are 0-based, TLA+  *)
(* sequences are 1-based: byte offset p of a buffer is element p + 1.      *)
(***************************************************************************)
Take(s, n) == SubSeq(s, 1, n)

Drop(s, n) == SubSeq(s, n + 1, Len(s))

Last(s) == s[Len(s)]

Front(s) == SubSeq(s, 1, Len(s) - 1)

Fill(n, v) == [i \in 1..n |-> v]

IsPrefix(s, t) == Len(s) <= Len(t) /\ Take(t, Len(s)) = s

RECURSIVE Sum(_)
Sum(s) == IF s = <<>> THEN 0 ELSE Head(s) + Sum(Tail(s))

(***************************************************************************)
(* Values (common/object.rs, enum Object).  A number is modelled by an     *)
(* integer and a string by a sequence of character codes.                  *)
(***************************************************************************)
Nil == [k |-> "Nil"]

Number(n) == [k |-> "Num", n |-> n]

Str(s) == [k |-> "Str", s |-> s]

Bool(b) == [k |-> "Bool", b |-> b]

Return(v) == [k |-> "Return", value |-> v]

Arr(es) == [k |-> "Arr", elements |-> es]

Builtin(name) == [k |-> "Builtin", name |-> name]

CompiledFunction(instructions, num_locals, num_params) ==
    [k |-> "Fn", instructions |-> instructions,
     num_locals |-> num_locals, num_params |-> num_params]

Closure(func, free) == [k |-> "Clos", func |-> func, free |-> free]

is_nil(obj) == obj.k = "Nil"

is_number(obj) == obj.k = "Num"

is_falsey(obj) == (obj.k = "Bool" /\ obj.b = FALSE) \/ obj.k = "Nil"

is_a_valid_key(obj) == obj.k \in {"Str", "Num", "Bool"}

\* PartialEq for Object: values of different kinds are never equal; a
\* closure or compiled function is compared by its instructions alone.
RECURSIVE ObjEq(_, _)
ObjEq(a, b) ==
    IF a.k # b.k THEN FALSE
    ELSE CASE a.k = "Nil" -> TRUE
           [] a.k = "Str" -> a.s = b.s
           [] a.k = "Num" -> a.n = b.n
           [] a.k = "Bool" -> a.b = b.b
           [] a.k = "Arr" ->
                /\ Len(a.elements) = Len(b.elements)
                /\ \A i \in 1..Len(a.elements) : ObjEq(a.elements[i], b.elements[i])
           [] a.k = "Map" ->
                /\ DOMAIN a.pairs = DOMAIN b.pairs
                /\ \A key \in DOMAIN a.pairs : ObjEq(a.pairs[key], b.pairs[key])
           [] a.k = "Builtin" -> a.name = b.name
           [] a.k = "Fn" -> a.instructions = b.instructions
           [] a.k = "Clos" -> a.func.instructions = b.func.instructions
           [] OTHER -> FALSE

(***************************************************************************)
(* Opcodes (code/opcode.rs) and their encoding (code/definitions.rs).      *)
(***************************************************************************)
Opcodes ==
    <<"Constant", "Pop", "Add", "Sub", "Mul", "Div", "True", "False", "Equal",
      "NotEqual", "Greater", "Minus", "Bang", "Jump", "JumpIfFalse", "Nil",
      "GetGlobal", "SetGlobal", "Array", "Map", "Index", "Call", "ReturnValue",
      "Return", "GetLocal", "SetLocal", "GetBuiltin", "Closure", "GetFree",
      "CurrClosure">>

\* impl From<Opcode> for u8: the position of the opcode in the enum.
OpByte(op) == (CHOOSE i \in 1..Len(Opcodes) : Opcodes[i] = op) - 1

\* impl From<u8> for Opcode: every other byte is Opcode::Invalid.
OpFromByte(b) == IF b + 1 \in 1..Len(Opcodes) THEN Opcodes[b + 1] ELSE "Invalid"

\* The DEFINITIONS table of code/definitions.rs as it stands in the source.
DEFINITIONS ==
    [Constant |-> <<2>>, Pop |-> <<>>, Add |-> <<>>, Sub |-> <<>>, Mul |-> <<>>,
     Div |-> <<>>, True |-> <<>>, False |-> <<>>, Equal |-> <<>>,
     NotEqual |-> <<>>, Greater |-> <<>>, Minus |-> <<>>, Bang |-> <<>>,
     Jump |-> <<2>>, JumpIfFalse |-> <<2>>, Nil |-> <<>>, GetGlobal |-> <<2>>,
     SetGlobal |-> <<2>>, Array |-> <<2>>, Map |-> <<2>>, Index |-> <<>>,
     Call |-> <<>>, ReturnValue |-> <<>>, Return |-> <<>>, GetLocal |-> <<1>>,
     SetLocal |-> <<1>>]

\* The operand widths of the closure-capable instruction set: Call carries
\* its argument count, and GetBuiltin, Closure, GetFree and CurrClosure are
\* defined.
OperandWidths(op) ==
    CASE op = "Call" -> <<1>>
      [] op = "GetBuiltin" -> <<1>>
      [] op = "GetFree" -> <<1>>
      [] op = "Closure" -> <<2, 1>>
      [] op = "CurrClosure" -> <<>>
      [] OTHER -> DEFINITIONS[op]

Instructions(code, lines) == [code |-> code, lines |-> lines]

NoInstructions == Instructions(<<>>, <<>>)

\* write_u16::<BigEndian>(o as u16) and write_u8(o as u8)
EncodeOperand(o, width) ==
    IF width = 2 THEN <<(o % 65536) \div 256, o % 256>> ELSE <<o % 256>>

RECURSIVE EncodeOperands(_, _)
EncodeOperands(operands, widths) ==
    IF operands = <<>> \/ widths = <<>> THEN <<>>
    ELSE EncodeOperand(Head(operands), Head(widths))
         \o EncodeOperands(Tail(operands), Tail(widths))

\* make: the opcode byte, then the operands zipped with the widths; one
\* line entry for each byte of the declared instruction length.
make(op, operands, line) ==
    LET widths == OperandWidths(op)
        instruction_len == 1 + Sum(widths)
    IN  Instructions(<<OpByte(op)>> \o EncodeOperands(operands, widths),
                     Fill(instruction_len, line))

\* read_operands: ins holds the bytes that follow the opcode.
RECURSIVE ReadFrom(_, _, _)
ReadFrom(widths, ins, offset) ==
    IF widths = <<>> THEN <<>>
    ELSE <<IF Head(widths) = 2 THEN ins[offset + 1] * 256 + ins[offset + 2]
           ELSE ins[offset + 1]>>
         \o ReadFrom(Tail(widths), ins, offset + Head(widths))

read_operands(op, ins) ==
    <<ReadFrom(OperandWidths(op), ins, 0), Sum(OperandWidths(op))>>

\* lookup: the definition of the opcode of a byte in the DEFINITIONS table
\* as it stands in the source, if it has one.
lookup(b) ==
    IF OpFromByte(b) \in DOMAIN DEFINITIONS
    THEN [ok |-> TRUE, operand_widths |-> DEFINITIONS[OpFromByte(b)]]
    ELSE [ok |-> FALSE, operand_widths |-> <<>>]

\* make and read_operands over the DEFINITIONS table as it stands in the
\* source: an opcode without a definition makes an empty instruction, and
\* an operand without a width is dropped.
make_defined(op, operands, line) ==
    IF op \in DOMAIN DEFINITIONS
    THEN Instructions(<<OpByte(op)>> \o EncodeOperands(operands, DEFINITIONS[op]),
                      Fill(1 + Sum(DEFINITIONS[op]), line))
    ELSE NoInstructions

read_operands_defined(def, ins) ==
    <<ReadFrom(def.operand_widths, ins, 0), Sum(def.operand_widths)>>

\* The loop of Display for Instructions: the instructions of a buffer, each
\* with its position.
RECURSIVE Disassemble(_, _)
Disassemble(code, i) ==
    IF i >= Len(code) THEN <<>>
    ELSE IF OpFromByte(code[i + 1]) = "Invalid"
    THEN <<[pos |-> i, op |-> "Invalid", operands |-> <<>>]>> \o Disassemble(code, i + 1)
    ELSE <<[pos |-> i, op |-> OpFromByte(code[i + 1]),
            operands |-> read_operands(OpFromByte(code[i + 1]), Drop(code, i + 1))[1]]>>
         \o Disassemble(code, i + 1 + read_operands(OpFromByte(code[i + 1]),
                                                    Drop(code, i + 1))[2])

(***************************************************************************)
(* The symbol table (compiler/symtab.rs).  A table and its chain of outer  *)
(* tables are a sequence, outermost first; the table in use is the last.   *)
(***************************************************************************)
Symbol(name, scope, index) == [name |-> name, scope |-> scope, index |-> index]

NoSymbol == Symbol("", "None", 0)

EmptyStore == [n \in {} |-> NoSymbol]

\* SymbolTable::default()
EmptyTable == [store |-> EmptyStore, num_definitions |-> 0, free_symbols |-> <<>>]

\* SymbolTable::new_enclosed(outer)
new_enclosed(tabs) == Append(tabs, EmptyTable)

Insert(tab, name, symbol) ==
    [tab EXCEPT !.store = (name :> symbol) @@ tab.store]

\* A define that gives a name defined before the index it had.
define_reusing_index(tabs, name) ==
    LET d == Len(tabs)
        symbol == Symbol(name, IF d = 1 THEN "Global" ELSE "Local",
                         IF name \in DOMAIN tabs[d].store THEN tabs[d].store[name].index
                         ELSE tabs[d].num_definitions)
    IN  [sym |-> symbol,
         tabs |-> [tabs EXCEPT ![d] =
                     [Insert(tabs[d], name, symbol) EXCEPT !.num_definitions =
                         IF name \in DOMAIN tabs[d].store THEN tabs[d].num_definitions
                         ELSE tabs[d].num_definitions + 1]]]

\* A define that leaves a name the store holds already as it is.
define_keeping_existing(tabs, name) ==
    IF name \in DOMAIN Last(tabs).store
    THEN [sym |-> Last(tabs).store[name],
          tabs |-> [tabs EXCEPT ![Len(tabs)].num_definitions = @ + 1]]
    ELSE define_reusing_index(tabs, name)

\* define: Global when the table has no outer table, Local otherwise.
\* A define that leaves num_definitions as it is.
define_uncounted(tabs, name) ==
    [sym |-> Symbol(name, IF Len(tabs) = 1 THEN "Global" ELSE "Local",
                    Last(tabs).num_definitions),
     tabs |-> [tabs EXCEPT ![Len(tabs)] =
                 Insert(Last(tabs), name,
                        Symbol(name, IF Len(tabs) = 1 THEN "Global" ELSE "Local",
                               Last(tabs).num_definitions))]]

define(tabs, name) ==
    LET d == Len(tabs)
        symbol == Symbol(name, IF d = 1 THEN "Global" ELSE "Local",
                         tabs[d].num_definitions)
    IN  [sym |-> symbol,
         tabs |-> [tabs EXCEPT ![d] =
                     [Insert(tabs[d], name, symbol)
                        EXCEPT !.num_definitions = tabs[d].num_definitions + 1]]]

\* A define_function_name that defines the name as one more local.
define_function_name_as_local(tabs, name) == define(tabs, name)

define_function_name(tabs, name) ==
    LET d == Len(tabs)
        symbol == Symbol(name, "Function", 0)
    IN  [sym |-> symbol, tabs |-> [tabs EXCEPT ![d] = Insert(tabs[d], name, symbol)]]

define_builtin(tabs, index, name) ==
    LET d == Len(tabs)
        symbol == Symbol(name, "Builtin", index)
    IN  [sym |-> symbol, tabs |-> [tabs EXCEPT ![d] = Insert(tabs[d], name, symbol)]]

\* A define_free that gives every free symbol the index 0.
define_free_at_zero(tabs, d, original) ==
    [found |-> TRUE, sym |-> Symbol(original.name, "Free", 0),
     tabs |-> [tabs EXCEPT ![d] =
                 [Insert(tabs[d], original.name, Symbol(original.name, "Free", 0))
                    EXCEPT !.free_symbols = Append(tabs[d].free_symbols, original)]]]

\* A define_free that does not cache the Free symbol in the store.
define_free_uncached(tabs, d, original) ==
    [found |-> TRUE,
     sym |-> Symbol(original.name, "Free", Len(tabs[d].free_symbols)),
     tabs |-> [tabs EXCEPT ![d].free_symbols = Append(tabs[d].free_symbols, original)]]

\* A define_free that lists the Free symbol it makes, not the original.
define_free_listing_itself(tabs, d, original) ==
    [found |-> TRUE,
     sym |-> Symbol(original.name, "Free", Len(tabs[d].free_symbols)),
     tabs |-> [tabs EXCEPT ![d] =
                 [Insert(tabs[d], original.name,
                         Symbol(original.name, "Free", Len(tabs[d].free_symbols)))
                    EXCEPT !.free_symbols =
                        Append(tabs[d].free_symbols,
                               Symbol(original.name, "Free", Len(tabs[d].free_symbols)))]]]

\* define_free on the table at depth d of the chain.
define_free(tabs, d, original) ==
    LET free == Append(tabs[d].free_symbols, original)
        symbol == Symbol(original.name, "Free", Len(free) - 1)
    IN  [found |-> TRUE, sym |-> symbol,
         tabs |-> [tabs EXCEPT ![d] =
                     [Insert(tabs[d], original.name, symbol)
                        EXCEPT !.free_symbols = free]]]

\* Only a Global symbol of an outer table is handed on unchanged.
OnlyGlobalForwarded == {"Global"}

\* The scopes of an outer table's symbol that resolve hands on unchanged.
\* The scopes forwarded when Function symbols are forwarded as well.
ForwardedScopesWithFunction == {"Global", "Builtin", "Function"}

ForwardedScopes == {"Global", "Builtin"}

\* resolve on the table at depth d: the table itself, then its outer one.
RECURSIVE resolve_at(_, _, _)
resolve_at(tabs, d, name) ==
    IF name \in DOMAIN tabs[d].store
    THEN [found |-> TRUE, sym |-> tabs[d].store[name], tabs |-> tabs]
    ELSE IF d > 1
         THEN LET r == resolve_at(tabs, d - 1, name)
              IN  IF r.found
                  THEN IF r.sym.scope \in ForwardedScopes THEN r
                       ELSE define_free(r.tabs, d, r.sym)
                  ELSE [found |-> FALSE, sym |-> NoSymbol, tabs |-> r.tabs]
         ELSE [found |-> FALSE, sym |-> NoSymbol, tabs |-> tabs]

\* A resolve that marks a name it cannot find as a free variable.
resolve_marking_free(tabs, name) ==
    IF resolve_at(tabs, Len(tabs), name).found THEN resolve_at(tabs, Len(tabs), name)
    ELSE define_free(tabs, Len(tabs), Symbol(name, "Local", 0))

resolve(tabs, name) == resolve_at(tabs, Len(tabs), name)

\* The registry of built-in functions (common/builtins.rs).
BUILTINS == <<"len", "puts", "first", "last", "rest", "push", "str", "time">>

\* The driver's loop that defines every built-in by its registry index.
RECURSIVE DefineBuiltins(_, _)
DefineBuiltins(tabs, i) ==
    IF i > Len(BUILTINS) THEN tabs
    ELSE DefineBuiltins(define_builtin(tabs, i - 1, BUILTINS[i]).tabs, i + 1)

(***************************************************************************)
(* The abstract syntax tree (parser/ast).  Every node carries the line of  *)
(* its token.                                                              *)
(***************************************************************************)
ENum(n) == [t |-> "Number", value |-> n, line |-> 1]

EStr(s) == [t |-> "Str", value |-> s, line |-> 1]

EBool(b) == [t |-> "Bool", value |-> b, line |-> 1]

EIdent(name) == [t |-> "Ident", name |-> name, line |-> 1]

EUnary(op, right) == [t |-> "Unary", operator |-> op, right |-> right, line |-> 1]

EBinary(left, op, right) ==
    [t |-> "Binary", operator |-> op, left |-> left, right |-> right, line |-> 1]

\* else_stmt is <<>> when there is no else branch and <<block>> otherwise.
EIf(cond, then_stmt) ==
    [t |-> "If", condition |-> cond, then_stmt |-> then_stmt, else_stmt |-> <<>>,
     line |-> 1]

EIfElse(cond, then_stmt, else_stmt) ==
    [t |-> "If", condition |-> cond, then_stmt |-> then_stmt,
     else_stmt |-> <<else_stmt>>, line |-> 1]

\* name is "" unless a let statement binds the literal.
EFn(params, body) ==
    [t |-> "Function", params |-> params, body |-> body, name |-> "", line |-> 1]

ECall(func, args) == [t |-> "Call", func |-> func, args |-> args, line |-> 1]

EArray(elements) == [t |-> "Array", elements |-> elements, line |-> 1]

EHash(pairs) == [t |-> "Hash", pairs |-> pairs, line |-> 1]

EIndex(left, index) == [t |-> "Index", left |-> left, index |-> index, line |-> 1]

SExpr(e) == [s |-> "Expr", value |-> e, line |-> 1]

SReturn(e) == [s |-> "Return", value |-> e, line |-> 1]

\* A let statement whose value is a function literal gives it its name.
SLet(name, e) ==
    [s |-> "Let", name |-> name,
     value |-> IF e.t = "Function" THEN [e EXCEPT !.name = name] ELSE e,
     line |-> 1]

(***************************************************************************)
(* The compiler (compiler/mod.rs).  A compiler is the record of its        *)
(* fields plus err, the CompileError a `?` hands up ("" while there is     *)
(* none).                                                                  *)
(***************************************************************************)
EmittedInstruction(opcode, position) == [opcode |-> opcode, position |-> position]

NoEmitted == EmittedInstruction("Invalid", 0)

NewScope == [instructions |-> NoInstructions, last_ins |-> NoEmitted,
             prev_ins |-> NoEmitted]

\* Compiler::new
new_compiler ==
    [constants |-> <<>>, symtab |-> <<EmptyTable>>, scopes |-> <<NewScope>>,
     scope_index |-> 0, err |-> ""]

\* A compiler that takes the symbol table over and starts its constants afresh.
new_with_symtab_only(symtab, constants) == [new_compiler EXCEPT !.symtab = symtab]

new_with_state(symtab, constants) ==
    [new_compiler EXCEPT !.constants = constants, !.symtab = symtab]

CompileError(c, msg) == [c EXCEPT !.err = msg]

CurScope(c) == c.scopes[c.scope_index + 1]

SetCurScope(c, scope) == [c EXCEPT !.scopes[c.scope_index + 1] = scope]

get_curr_instructions(c) == CurScope(c).instructions

bytecode(c) == [instructions |-> get_curr_instructions(c), constants |-> c.constants]

enter_scope(c) ==
    [c EXCEPT !.scopes = Append(c.scopes, NewScope),
              !.scope_index = c.scope_index + 1,
              !.symtab = new_enclosed(c.symtab)]

\* A leave_scope that keeps the symbol table of the scope it leaves.
leave_scope_keeping_table(c) ==
    [c EXCEPT !.scopes = Take(c.scopes, Len(c.scopes) - 1),
              !.scope_index = c.scope_index - 1]

\* leave_scope: the compiler afterwards; its result is the buffer of the
\* scope left, get_curr_instructions of the compiler before.
leave_scope(c) ==
    [c EXCEPT !.scopes = Take(c.scopes, Len(c.scopes) - 1),
              !.scope_index = c.scope_index - 1,
              !.symtab = Front(c.symtab)]

add_constant(c, obj) == [c EXCEPT !.constants = Append(c.constants, obj)]

add_instruction(c, ins) ==
    LET curr_ins == get_curr_instructions(c)
    IN  SetCurScope(c, [CurScope(c) EXCEPT !.instructions =
                          Instructions(curr_ins.code \o ins.code,
                                       curr_ins.lines \o ins.lines)])

set_last_instruction(c, op, pos) ==
    SetCurScope(c, [CurScope(c) EXCEPT !.prev_ins = CurScope(c).last_ins,
                                       !.last_ins = EmittedInstruction(op, pos)])

\* emit: the position it returns is the length of the buffer before.
emit(c, op, operands, line) ==
    set_last_instruction(add_instruction(c, make(op, operands, line)), op,
                         Len(get_curr_instructions(c).code))

\* The `?` of the code: an operation goes ahead unless an error is under way.
EmitOk(c, op, operands, line) == IF c.err # "" THEN c ELSE emit(c, op, operands, line)

is_last_instruction(c, opcode) ==
    IF CurScope(c).instructions.code = <<>> THEN FALSE
    ELSE CurScope(c).last_ins.opcode = opcode

\* A remove_last_pop that cuts the bytes and keeps the lines.
remove_last_pop_keeping_lines(c) ==
    SetCurScope(c, [CurScope(c) EXCEPT
        !.instructions.code = Take(get_curr_instructions(c).code, CurScope(c).last_ins.position),
        !.last_ins = CurScope(c).prev_ins])

remove_last_pop(c) ==
    LET last_ins == CurScope(c).last_ins
        prev_ins == CurScope(c).prev_ins
        old_ins == get_curr_instructions(c)
    IN  SetCurScope(c, [CurScope(c) EXCEPT
            !.instructions = Instructions(Take(old_ins.code, last_ins.position),
                                          Take(old_ins.lines, last_ins.position)),
            !.last_ins = prev_ins])

\* replace_instruction: the bytes are overwritten in place, the lines stay.
replace_instruction(c, pos, new_instruction) ==
    LET curr_ins == get_curr_instructions(c)
    IN  SetCurScope(c, [CurScope(c) EXCEPT !.instructions.code =
            [i \in 1..Len(curr_ins.code) |->
                IF i - 1 >= pos /\ i - 1 < pos + Len(new_instruction)
                THEN new_instruction[i - pos] ELSE curr_ins.code[i]]])

replace_last_pop_with_return(c) ==
    LET last_pos == CurScope(c).last_ins.position
        replaced == replace_instruction(c, last_pos, make("ReturnValue", <<0>>, 1).code)
    IN  SetCurScope(replaced,
                    [CurScope(replaced) EXCEPT !.last_ins.opcode = "ReturnValue"])

\* A change_operand that writes the operand one byte short of the position.
change_operand_short(c, op_pos, operand) ==
    replace_instruction(c, op_pos,
        make(OpFromByte(get_curr_instructions(c).code[op_pos + 1]),
             <<IF operand > 0 THEN operand - 1 ELSE 0>>, 1).code)

change_operand(c, op_pos, operand) ==
    LET op == OpFromByte(get_curr_instructions(c).code[op_pos + 1])
        line == get_curr_instructions(c).lines[op_pos + 1]
    IN  replace_instruction(c, op_pos, make(op, <<operand>>, line).code)

compile_infix_expr(c, operator, line) ==
    CASE operator = "+" -> EmitOk(c, "Add", <<0>>, line)
      [] operator = "-" -> EmitOk(c, "Sub", <<0>>, line)
      [] operator = "*" -> EmitOk(c, "Mul", <<0>>, line)
      [] operator = "/" -> EmitOk(c, "Div", <<0>>, line)
      [] operator = "==" -> EmitOk(c, "Equal", <<0>>, line)
      [] operator = "!=" -> EmitOk(c, "NotEqual", <<0>>, line)
      [] operator \in {">", "<"} -> EmitOk(c, "Greater", <<0>>, line)
      [] OTHER -> IF c.err # "" THEN c ELSE CompileError(c, "invalid binary operator")

\* The instruction of a prefix operator, c being the compiler after the operand.
compile_prefix_expr(c, operator, line) ==
    CASE operator = "!" -> EmitOk(c, "Bang", <<0>>, line)
      [] operator = "-" -> EmitOk(c, "Minus", <<0>>, line)
      [] OTHER -> IF c.err # "" THEN c ELSE CompileError(c, "invalid binary operator")

\* The load of a resolved symbol, by its scope.
load_symbol(c, symbol, line) ==
    CASE symbol.scope = "Global" -> emit(c, "GetGlobal", <<symbol.index>>, line)
      [] symbol.scope = "Local" -> emit(c, "GetLocal", <<symbol.index>>, line)
      [] symbol.scope = "Builtin" -> emit(c, "GetBuiltin", <<symbol.index>>, line)
      [] symbol.scope = "Free" -> emit(c, "GetFree", <<symbol.index>>, line)
      [] symbol.scope = "Function" -> emit(c, "CurrClosure", <<>>, line)

RECURSIVE LoadSymbols(_, _, _)
LoadSymbols(c, symbols, line) ==
    IF symbols = <<>> THEN c
    ELSE LoadSymbols(load_symbol(c, Head(symbols), line), Tail(symbols), line)

RECURSIVE DefineParams(_, _)
DefineParams(tabs, params) ==
    IF params = <<>> THEN tabs
    ELSE DefineParams(define(tabs, Head(params)).tabs, Tail(params))

RECURSIVE compile_statements(_, _)
RECURSIVE compile_statement(_, _)
\* The operands of a binary expression compiled left first, whatever the
\* operator.
binary_operands_in_order(expr) == <<expr.left, expr.right>>

\* The operands of a binary expression in the order they are compiled in:
\* for `<` the right one first, so that `>` serves.
binary_operands(expr) ==
    IF expr.operator = "<" THEN <<expr.right, expr.left>> ELSE <<expr.left, expr.right>>

RECURSIVE compile_expression(_, _)
RECURSIVE compile_expressions(_, _)
RECURSIVE compile_pairs(_, _)
RECURSIVE compile_if(_, _)
RECURSIVE compile_function(_, _)

\* compile_statements_nounwrap: the first error ends the loop.
compile_statements(c, statements) ==
    IF statements = <<>> \/ c.err # "" THEN c
    ELSE compile_statements(compile_statement(c, Head(statements)), Tail(statements))

compile_block_statement(c, stmt) == compile_statements(c, stmt)

\* The second half of a let statement, c1 being the compiler after the
\* value: the name is defined and the store is emitted by its scope.
define_and_set(c1, stmt) ==
    LET d == define(c1.symtab, stmt.name)
    IN  IF c1.err # "" THEN c1
        ELSE emit([c1 EXCEPT !.symtab = d.tabs],
                  IF d.sym.scope = "Global" THEN "SetGlobal" ELSE "SetLocal",
                  <<d.sym.index>>, stmt.line)

compile_statement(c, stmt) ==
    CASE stmt.s = "Expr" ->
            EmitOk(compile_expression(c, stmt.value), "Pop", <<0>>, stmt.line)
      [] stmt.s = "Let" -> define_and_set(compile_expression(c, stmt.value), stmt)
      [] stmt.s = "Return" ->
            EmitOk(compile_expression(c, stmt.value), "ReturnValue", <<0>>, stmt.line)
      [] OTHER -> c

compile_expressions(c, exprs) ==
    IF exprs = <<>> \/ c.err # "" THEN c
    ELSE compile_expressions(compile_expression(c, Head(exprs)), Tail(exprs))

compile_pairs(c, pairs) ==
    IF pairs = <<>> \/ c.err # "" THEN c
    ELSE compile_pairs(compile_expressions(c, Head(pairs)), Tail(pairs))

\* The trailing Pop of a block is removed so that the block yields a value.
RemoveTrailingPop(c) ==
    IF is_last_instruction(c, "Pop") THEN remove_last_pop(c) ELSE c

\* The end of an if expression, c7 being the compiler after the else branch
\* (or the Nil that stands for it): the Jump is patched to the position after.
patch_jump(c7, jump_pos, expr) ==
    IF c7.err # "" THEN c7
    ELSE IF expr.else_stmt = <<>>
    THEN change_operand(c7, jump_pos, Len(get_curr_instructions(c7).code))
    ELSE change_operand(RemoveTrailingPop(c7), jump_pos,
                        Len(get_curr_instructions(RemoveTrailingPop(c7)).code))

\* c5 is the compiler after the Jump: the JumpIfFalse is patched to the
\* position after it, and the else branch follows.
compile_else(c5, jump_if_false_pos, jump_pos, expr) ==
    IF expr.else_stmt = <<>>
    THEN patch_jump(emit(change_operand(c5, jump_if_false_pos,
                                        Len(get_curr_instructions(c5).code)),
                         "Nil", <<0>>, expr.line),
                    jump_pos, expr)
    ELSE patch_jump(compile_block_statement(
                        change_operand(c5, jump_if_false_pos,
                                       Len(get_curr_instructions(c5).code)),
                        expr.else_stmt[1]),
                    jump_pos, expr)

\* c3 is the compiler after the then block.
compile_jump(c3, jump_if_false_pos, expr) ==
    IF c3.err # "" THEN c3
    ELSE compile_else(emit(RemoveTrailingPop(c3), "Jump", <<65535>>, expr.line),
                      jump_if_false_pos,
                      Len(get_curr_instructions(RemoveTrailingPop(c3)).code), expr)

\* c1 is the compiler after the condition.
compile_then(c1, expr) ==
    IF c1.err # "" THEN c1
    ELSE compile_jump(compile_block_statement(
                          emit(c1, "JumpIfFalse", <<65535>>, expr.line), expr.then_stmt),
                      Len(get_curr_instructions(c1).code), expr)

compile_if(c, expr) == compile_then(compile_expression(c, expr.condition), expr)

\* The end of a function literal, c5 being the compiler after the body and
\* its return: the scope is left, the compiled function becomes a constant,
\* the enclosing scope loads the captured values and builds the closure.
build_closure(c5, func) ==
    LET free_symbols == Last(c5.symtab).free_symbols
        compiled_fn == CompiledFunction(get_curr_instructions(c5),
                                        Last(c5.symtab).num_definitions,
                                        Len(func.params))
    IN  emit(LoadSymbols(add_constant(leave_scope(c5), compiled_fn), free_symbols,
                         func.line),
             "Closure", <<Len(c5.constants), Len(free_symbols)>>, func.line)

\* A function literal that emits no Return of its own.
without_return(c4, func) == build_closure(c4, func)

\* c4 is the compiler after the body, its last Pop made a ReturnValue.
ensure_return(c4, func) ==
    IF ~is_last_instruction(c4, "ReturnValue")
    THEN build_closure(emit(c4, "Return", <<0>>, func.line), func)
    ELSE build_closure(c4, func)

\* c3 is the compiler after the body.
return_last_value(c3, func) ==
    IF c3.err # "" THEN c3
    ELSE IF is_last_instruction(c3, "Pop")
    THEN ensure_return(replace_last_pop_with_return(c3), func)
    ELSE ensure_return(c3, func)

\* c1 is the compiler in the scope entered: the literal's name, if it has
\* one, and its parameters are defined, and the body is compiled.
compile_body(c1, func) ==
    compile_block_statement(
        [c1 EXCEPT !.symtab =
            DefineParams(IF func.name # ""
                         THEN define_function_name(c1.symtab, func.name).tabs
                         ELSE c1.symtab,
                         func.params)],
        func.body)

compile_function(c, func) == return_last_value(compile_body(enter_scope(c), func), func)

\* The load of an identifier, r being what resolve made of it.
compile_ident(c, r, expr) ==
    IF r.found THEN load_symbol([c EXCEPT !.symtab = r.tabs], r.sym, expr.line)
    ELSE CompileError(c, "undefined variable")

compile_expression(c, expr) ==
    CASE expr.t = "Number" ->
            emit(add_constant(c, Number(expr.value)), "Constant", <<Len(c.constants)>>,
                 expr.line)
      [] expr.t = "Str" ->
            emit(add_constant(c, Str(expr.value)), "Constant", <<Len(c.constants)>>,
                 expr.line)
      [] expr.t = "Array" ->
            EmitOk(compile_expressions(c, expr.elements), "Array", <<Len(expr.elements)>>,
                   expr.line)
      [] expr.t = "Hash" ->
            EmitOk(compile_pairs(c, expr.pairs), "Map", <<Len(expr.pairs) * 2>>, expr.line)
      [] expr.t = "Binary" ->
            compile_infix_expr(compile_expressions(c, binary_operands(expr)),
                               expr.operator, expr.line)
      [] expr.t = "Unary" ->
            compile_prefix_expr(compile_expression(c, expr.right), expr.operator, expr.line)
      [] expr.t = "Bool" ->
            IF expr.value THEN emit(c, "True", <<0>>, expr.line)
            ELSE emit(c, "False", <<0>>, expr.line)
      [] expr.t = "If" -> compile_if(c, expr)
      [] expr.t = "Ident" -> compile_ident(c, resolve(c.symtab, expr.name), expr)
      [] expr.t = "Index" ->
            EmitOk(compile_expressions(c, <<expr.left, expr.index>>), "Index", <<0>>,
                   expr.line)
      [] expr.t = "Function" -> compile_function(c, expr)
      [] expr.t = "Call" ->
            EmitOk(compile_expressions(c, <<expr.func>> \o expr.args), "Call",
                   <<Len(expr.args)>>, expr.line)
      [] OTHER -> c

compile_program(c, program) == compile_statements(c, program)

compile(c, pgm) == compile_program(c, pgm)

(***************************************************************************)
(* The virtual machine (vm/interpreter.rs, vm/frame.rs).  A machine is the *)
(* record of its fields, its frame stack, and status: "running", "done"    *)
(* (run returned Ok), "error" (run returned an RTError) or "panic" (the    *)
(* process aborted: an index out of range, an arithmetic overflow).        *)
(* Rust's stack[i] is stack[i + 1] here.                                   *)
(***************************************************************************)
STACK_SIZE == 4096

GLOBALS_SIZE == 65536

\* Frame::new: the closure in execution, ip at 0, the base pointer.
Frame(cl, bp) == [cl |-> cl, ip |-> 0, bp |-> bp]

\* The globals array is Nil everywhere but where a SetGlobal has written.
NoGlobals == [i \in {} |-> Nil]

GlobalAt(globals, i) == IF i \in DOMAIN globals THEN globals[i] ELSE Nil

\* The run loop goes on while the frame in execution has instructions left.
Settle(vm) ==
    IF vm.status = "running"
       /\ Last(vm.frames).ip >= Len(Last(vm.frames).cl.func.instructions.code)
    THEN [vm EXCEPT !.status = "done"] ELSE vm

\* VM::new_with_global_store, with the top-level instructions wrapped in a
\* closure of no parameters and no locals as the main frame.
new_with_global_store(bc, globals) ==
    Settle([constants |-> bc.constants, stack |-> <<>>, sp |-> 0,
            globals |-> globals,
            frames |-> <<Frame(Closure(CompiledFunction(bc.instructions, 0, 0), <<>>), 0)>>,
            status |-> "running", error |-> ""])

RTError(vm, msg) == [vm EXCEPT !.status = "error", !.error = msg]

Panic(vm, msg) == [vm EXCEPT !.status = "panic", !.error = msg]

Failed(vm) == vm.status \in {"error", "panic"}

CurFrame(vm) == Last(vm.frames)

SetIp(vm, ip) == [vm EXCEPT !.frames[Len(vm.frames)].ip = ip]

peek(vm, distance) ==
    IF vm.sp - distance = 0 THEN Nil ELSE vm.stack[vm.sp - distance]

\* A push that appends to the vector wherever sp points.
push_appending(vm, obj) == [vm EXCEPT !.stack = Append(vm.stack, obj), !.sp = vm.sp + 1]

\* push: append when sp is at the end of the vector, overwrite otherwise.
push(vm, obj) ==
    [vm EXCEPT !.stack = IF vm.sp >= Len(vm.stack) THEN Append(vm.stack, obj)
                         ELSE [vm.stack EXCEPT ![vm.sp + 1] = obj],
               !.sp = vm.sp + 1]

\* A pop that hands out the top value and leaves sp where it was.
pop_without_decrement(vm) ==
    IF vm.sp = 0 THEN RTError(vm, "Stack underflow!") ELSE vm

\* pop: the machine afterwards; the value popped is Top of the machine before.
pop(vm) ==
    IF vm.sp = 0 THEN RTError(vm, "Stack underflow!")
    ELSE [vm EXCEPT !.sp = vm.sp - 1]

Top(vm) == vm.stack[vm.sp]

\* last_popped reads stack[sp]: a slot the vector may not have.
last_popped(vm) ==
    IF vm.sp + 1 \in 1..Len(vm.stack) THEN vm.stack[vm.sp + 1] ELSE [k |-> "Panic"]

\* A number is n, or the quotient n / d that a division has left when it is
\* no integer: d = 0 with n = 0 is NaN, d = 0 otherwise an infinity.
IsNaN(x) == "d" \in DOMAIN x /\ x.d = 0 /\ x.n = 0

\* idx < 0. in f64: false for NaN.
NumBelowZero(x) ==
    IF "d" \notin DOMAIN x THEN x.n < 0
    ELSE IF x.d = 0 THEN x.n < 0
    ELSE (x.n < 0 /\ x.d > 0) \/ (x.n > 0 /\ x.d < 0)

\* idx >= len as f64: false for NaN.
NumAtLeast(x, len) ==
    IF "d" \notin DOMAIN x THEN x.n >= len
    ELSE IF x.d = 0 THEN x.n > 0
    ELSE IF x.d > 0 THEN x.n >= len * x.d
    ELSE x.n <= len * x.d

\* idx as usize for an idx that is not below zero: the fraction is cut off,
\* and NaN becomes 0.
as_usize(x) ==
    IF "d" \notin DOMAIN x THEN x.n
    ELSE IF x.d = 0 THEN 0
    ELSE IF x.d > 0 THEN x.n \div x.d
    ELSE (0 - x.n) \div (0 - x.d)

RECURSIVE Repeat(_, _)
Repeat(s, n) == IF n <= 0 THEN <<>> ELSE s \o Repeat(s, n - 1)

\* The arithmetic of the operators on two numbers.  Numbers are integers
\* here, and a quotient that is no integer is kept as the pair it is.
Arith(optype, a, b) ==
    CASE optype = "Add" -> Number(a + b)
      [] optype = "Sub" -> Number(a - b)
      [] optype = "Mul" -> Number(a * b)
      [] optype = "Div" -> IF b # 0 /\ a % b = 0 THEN Number(a \div b)
                           ELSE [k |-> "Num", n |-> a, d |-> b]
      [] optype = "Greater" -> Bool(a > b)

binary_op(vm, optype) ==
    LET p1 == pop(vm)
        right == Top(vm)
        p2 == pop(p1)
        left == Top(p1)
    IN  IF Failed(p1) THEN p1
        ELSE IF Failed(p2) THEN p2
        ELSE CASE left.k = "Num" /\ right.k = "Num" ->
                    push(p2, Arith(optype, left.n, right.n))
               [] left.k = "Str" /\ right.k = "Str" ->
                    IF optype = "Add" THEN push(p2, Str(left.s \o right.s))
                    ELSE RTError(p2, "Invalid operation on strings.")
               [] left.k = "Str" /\ right.k = "Num" ->
                    IF optype = "Mul" THEN push(p2, Str(Repeat(left.s, right.n)))
                    ELSE RTError(p2, "Invalid operation on strings.")
               [] left.k = "Num" /\ right.k = "Str" ->
                    IF optype = "Mul" THEN push(p2, Str(Repeat(right.s, left.n)))
                    ELSE RTError(p2, "Invalid operation on strings.")
               [] OTHER -> RTError(p2, "Invalid binary operation.")

op_equal(vm, negate) ==
    LET p1 == pop(vm)
        b == Top(vm)
        p2 == pop(p1)
        a == Top(p1)
    IN  IF Failed(p1) THEN p1
        ELSE IF Failed(p2) THEN p2
        ELSE push(p2, Bool(IF negate THEN ~ObjEq(a, b) ELSE ObjEq(a, b)))

op_minus(vm) ==
    IF ~is_number(peek(vm, 0)) THEN RTError(vm, "Operand must be a number")
    ELSE push(pop(vm), Number(0 - Top(vm).n))

op_bang(vm) ==
    IF Failed(pop(vm)) THEN pop(vm)
    ELSE push(pop(vm), Bool(is_falsey(Top(vm))))

\* The condition values on which JumpIfFalse jumps.
JumpsOn(condition) == is_falsey(condition)

op_jump_if_false(vm, pos) ==
    IF Failed(pop(vm)) THEN pop(vm)
    ELSE IF JumpsOn(Top(vm)) THEN SetIp(pop(vm), pos) ELSE pop(vm)

op_constant(vm, const_index) ==
    IF const_index + 1 \in 1..Len(vm.constants)
    THEN push(vm, vm.constants[const_index + 1])
    ELSE RTError(vm, "constant not found")

op_get_global(vm, globals_index) == push(vm, GlobalAt(vm.globals, globals_index))

op_set_global(vm, globals_index) ==
    IF Failed(pop(vm)) THEN pop(vm)
    ELSE [pop(vm) EXCEPT !.globals = (globals_index :> Top(vm)) @@ vm.globals]

\* build_array: the elements stack[start_index..end_index].
build_array(vm, start_index, end_index) == SubSeq(vm.stack, start_index + 1, end_index)

op_array(vm, num_elements) ==
    IF vm.sp < num_elements THEN Panic(vm, "attempt to subtract with overflow")
    ELSE push([vm EXCEPT !.sp = vm.sp - num_elements],
              Arr(build_array(vm, vm.sp - num_elements, vm.sp)))

\* build_map: the pairs are inserted in stack order, a later pair replacing
\* an earlier one of the same key.
RECURSIVE build_map(_, _, _)
build_map(vm, start_index, end_index) ==
    IF start_index >= end_index THEN [key \in {} |-> Nil]
    ELSE LET key == vm.stack[end_index - 1]
             val == vm.stack[end_index]
         IN  (key :> val) @@ build_map(vm, start_index, end_index - 2)

op_map(vm, num_elements) ==
    IF vm.sp < num_elements THEN Panic(vm, "attempt to subtract with overflow")
    ELSE push([vm EXCEPT !.sp = vm.sp - num_elements],
              [k |-> "Map", pairs |-> build_map(vm, vm.sp - num_elements, vm.sp)])

(***************************************************************************)
(* The built-in functions (common/builtins.rs): Ok(value) or Err(message). *)
(* str and time are left out: no program of the model calls them.          *)
(***************************************************************************)
Ok(v) == [ok |-> TRUE, val |-> v, msg |-> ""]

Err(msg) == [ok |-> FALSE, val |-> Nil, msg |-> msg]

builtin_len(args) ==
    IF Len(args) # 1 THEN Err("wrong number of arguments")
    ELSE CASE args[1].k = "Str" -> Ok(Number(Len(args[1].s)))
           [] args[1].k = "Arr" -> Ok(Number(Len(args[1].elements)))
           [] OTHER -> Err("argument to 'len' not supported")

builtin_puts(args) == Ok(Nil)

builtin_first(args) ==
    IF args = <<>> THEN Err("no arguments provided")
    ELSE IF args[1].k # "Arr" THEN Err("argument to 'first' not supported")
    ELSE IF args[1].elements = <<>> THEN Ok(Nil)
    ELSE Ok(Head(args[1].elements))

builtin_last(args) ==
    IF args = <<>> THEN Err("no arguments provided")
    ELSE IF args[1].k # "Arr" THEN Err("argument to 'last' not supported")
    ELSE IF args[1].elements = <<>> THEN Ok(Nil)
    ELSE Ok(Last(args[1].elements))

builtin_rest(args) ==
    IF args = <<>> THEN Err("argument to 'last' not provided")
    ELSE IF args[1].k # "Arr" THEN Err("argument to 'last' not supported")
    ELSE IF args[1].elements = <<>> THEN Ok(Nil)
    ELSE Ok(Arr(Tail(args[1].elements)))

\* A push that returns the array of the new element alone.
builtin_push_alone(args) ==
    IF Len(args) < 2 THEN Err("'push' needs atleast two arguments")
    ELSE IF args[1].k # "Arr" THEN Err("argument to 'push' not supported")
    ELSE Ok(Arr(<<args[2]>>))

builtin_push(args) ==
    IF Len(args) < 2 THEN Err("'push' needs atleast two arguments")
    ELSE IF args[1].k # "Arr" THEN Err("argument to 'push' not supported")
    ELSE Ok(Arr(Append(args[1].elements, args[2])))

call_builtin(name, args) ==
    CASE name = "len" -> builtin_len(args)
      [] name = "puts" -> builtin_puts(args)
      [] name = "first" -> builtin_first(args)
      [] name = "last" -> builtin_last(args)
      [] name = "rest" -> builtin_rest(args)
      [] name = "push" -> builtin_push(args)
      [] OTHER -> Err("not modelled")

(***************************************************************************)
(* The instructions of the frame-based machine: locals, calls, returns,    *)
(* closures and indexing.                                                  *)
(***************************************************************************)
op_get_local(vm, idx) ==
    IF CurFrame(vm).bp + idx + 1 \in 1..Len(vm.stack)
    THEN push(vm, vm.stack[CurFrame(vm).bp + idx + 1])
    ELSE Panic(vm, "index out of bounds")

op_set_local(vm, idx) ==
    IF Failed(pop(vm)) THEN pop(vm)
    ELSE IF CurFrame(vm).bp + idx + 1 \in 1..Len(vm.stack)
         THEN [pop(vm) EXCEPT !.stack[CurFrame(vm).bp + idx + 1] = Top(vm)]
         ELSE Panic(vm, "index out of bounds")

op_get_builtin(vm, idx) ==
    IF idx + 1 \in 1..Len(BUILTINS) THEN push(vm, Builtin(BUILTINS[idx + 1]))
    ELSE Panic(vm, "index out of bounds")

op_get_free(vm, idx) ==
    IF idx + 1 \in 1..Len(CurFrame(vm).cl.free)
    THEN push(vm, CurFrame(vm).cl.free[idx + 1])
    ELSE Panic(vm, "index out of bounds")

op_curr_closure(vm) == push(vm, CurFrame(vm).cl)

\* Closure fn-idx nfree: the nfree values on top of the stack, in stack
\* order, become the free list of the new closure.
op_closure(vm, const_index, num_free) ==
    IF const_index + 1 \notin 1..Len(vm.constants)
    THEN RTError(vm, "constant not found")
    ELSE IF vm.constants[const_index + 1].k # "Fn" THEN RTError(vm, "not a function")
    ELSE IF vm.sp < num_free THEN Panic(vm, "attempt to subtract with overflow")
    ELSE push([vm EXCEPT !.sp = vm.sp - num_free],
              Closure(vm.constants[const_index + 1],
                      SubSeq(vm.stack, vm.sp - num_free + 1, vm.sp)))

\* The stack pointer a call leaves: the locals are reserved above bp, and
\* the vector is extended where it is shorter.
ReserveLocals(vm, bp, num_locals) ==
    [vm EXCEPT !.sp = bp + num_locals,
               !.stack = IF Len(vm.stack) < bp + num_locals
                         THEN vm.stack \o Fill(bp + num_locals - Len(vm.stack), Nil)
                         ELSE vm.stack]

\* An arity test that lets surplus arguments through.
ArityAtLeast(num_args, func) == num_args >= func.num_params

\* The arity test of a call of a closure.
ArityOk(num_args, func) == num_args = func.num_params

call_closure(vm, cl, num_args) ==
    IF ~ArityOk(num_args, cl.func) THEN RTError(vm, "wrong number of arguments")
    ELSE ReserveLocals([vm EXCEPT !.frames = Append(vm.frames, Frame(cl, vm.sp - num_args))],
                       vm.sp - num_args, cl.func.num_locals)

call_builtin_function(vm, name, num_args) ==
    LET r == call_builtin(name, SubSeq(vm.stack, vm.sp - num_args + 1, vm.sp))
    IN  IF ~r.ok THEN RTError(vm, r.msg)
        ELSE push([vm EXCEPT !.sp = vm.sp - num_args - 1], r.val)

\* Call n: the callee is the value n slots below the top.
op_call(vm, num_args) ==
    IF vm.sp < num_args + 1 THEN Panic(vm, "attempt to subtract with overflow")
    ELSE LET callee == vm.stack[vm.sp - num_args]
         IN  CASE callee.k = "Clos" -> call_closure(vm, callee, num_args)
               [] callee.k = "Builtin" -> call_builtin_function(vm, callee.name, num_args)
               [] OTHER -> RTError(vm, "not a function")

\* The frame is popped and the stack cut back to the slot of the callee,
\* which then receives the value returned.
return_from(vm, value) ==
    LET frame == CurFrame(vm)
    IN  IF frame.bp = 0 THEN Panic([vm EXCEPT !.frames = Front(vm.frames)],
                                   "attempt to subtract with overflow")
        ELSE push([vm EXCEPT !.frames = Front(vm.frames), !.sp = frame.bp - 1], value)

op_return_value(vm) ==
    IF Failed(pop(vm)) THEN pop(vm) ELSE return_from(pop(vm), Top(vm))

op_return(vm) == return_from(vm, Nil)

op_index(vm) ==
    LET p1 == pop(vm)
        key == Top(vm)
        p2 == pop(p1)
        coll == Top(p1)
    IN  IF Failed(p1) THEN p1
        ELSE IF Failed(p2) THEN p2
        ELSE CASE coll.k = "Arr" ->
                    IF key.k # "Num" THEN RTError(p2, "invalid index to array object")
                    ELSE IF IsNaN(key) \/ NumBelowZero(key)
                            \/ NumAtLeast(key, Len(coll.elements))
                    THEN push(p2, Nil)
                    ELSE push(p2, coll.elements[as_usize(key) + 1])
               [] coll.k = "Map" ->
                    IF ~is_a_valid_key(key) THEN RTError(p2, "invalid hash key")
                    ELSE IF key \in DOMAIN coll.pairs THEN push(p2, coll.pairs[key])
                    ELSE push(p2, Nil)
               [] OTHER -> RTError(p2, "index operator not supported")

\* One turn of the run loop: the instruction at ip of the frame in execution
\* is decoded, ip moves past it, and the instruction is executed.
execute(vm, op, operands) ==
    CASE op = "Constant" -> op_constant(vm, operands[1])
      [] op = "Pop" -> pop(vm)
      [] op \in {"Add", "Sub", "Mul", "Div", "Greater"} -> binary_op(vm, op)
      [] op = "True" -> push(vm, Bool(TRUE))
      [] op = "False" -> push(vm, Bool(FALSE))
      [] op = "Nil" -> push(vm, Nil)
      [] op = "Equal" -> op_equal(vm, FALSE)
      [] op = "NotEqual" -> op_equal(vm, TRUE)
      [] op = "Minus" -> op_minus(vm)
      [] op = "Bang" -> op_bang(vm)
      [] op = "Jump" -> SetIp(vm, operands[1])
      [] op = "JumpIfFalse" -> op_jump_if_false(vm, operands[1])
      [] op = "GetGlobal" -> op_get_global(vm, operands[1])
      [] op = "SetGlobal" -> op_set_global(vm, operands[1])
      [] op = "Array" -> op_array(vm, operands[1])
      [] op = "Map" -> op_map(vm, operands[1])
      [] op = "Index" -> op_index(vm)
      [] op = "Call" -> op_call(vm, operands[1])
      [] op = "ReturnValue" -> op_return_value(vm)
      [] op = "Return" -> op_return(vm)
      [] op = "GetLocal" -> op_get_local(vm, operands[1])
      [] op = "SetLocal" -> op_set_local(vm, operands[1])
      [] op = "GetBuiltin" -> op_get_builtin(vm, operands[1])
      [] op = "Closure" -> op_closure(vm, operands[1], operands[2])
      [] op = "GetFree" -> op_get_free(vm, operands[1])
      [] op = "CurrClosure" -> op_curr_closure(vm)
      [] OTHER -> RTError(vm, "opcode undefined")

\* The opcode and the operands at ip of the frame in execution.
Fetch(vm) ==
    LET code == CurFrame(vm).cl.func.instructions.code
        ip == CurFrame(vm).ip
        op == OpFromByte(code[ip + 1])
        r == IF op = "Invalid" THEN <<<<>>, 0>> ELSE read_operands(op, Drop(code, ip + 1))
    IN  [op |-> op, operands |-> r[1], next |-> ip + 1 + r[2]]

run_step(vm) ==
    LET f == Fetch(vm)
    IN  Settle(execute(SetIp(vm, f.next), f.op, f.operands))

(***************************************************************************)
(* The tree-walking evaluator (evaluator/eval.rs, common/environment.rs).  *)
(* The environments, shared by reference in the program, live in a heap:   *)
(* environment e is heap[e], and enclosing = 0 stands for None.  The       *)
(* outcome of an evaluation is "ok" with a value, "err" with an RTError,   *)
(* or "panic"; d is the depth of calls still allowed.                      *)
(***************************************************************************)
EvalDepth == 6

Func(params, body, env) == [k |-> "Func", params |-> params, body |-> body, env |-> env]

NoEnv == [name \in {} |-> Nil]

\* Environment::default() as the only environment of the heap.
NewHeap == <<[env |-> NoEnv, enclosing |-> 0]>>

new_enclosing(heap, enclosing) == Append(heap, [env |-> NoEnv, enclosing |-> enclosing])

RECURSIVE get(_, _, _)
get(heap, e, name) ==
    IF name \in DOMAIN heap[e].env THEN [found |-> TRUE, obj |-> heap[e].env[name]]
    ELSE IF heap[e].enclosing # 0 THEN get(heap, heap[e].enclosing, name)
    ELSE [found |-> FALSE, obj |-> Nil]

set(heap, e, name, value) == [heap EXCEPT ![e].env = (name :> value) @@ heap[e].env]

EOk(v, heap) == [st |-> "ok", val |-> v, msg |-> "", heap |-> heap]

EErr(msg, heap) == [st |-> "err", val |-> Nil, msg |-> msg, heap |-> heap]

EPanic(msg, heap) == [st |-> "panic", val |-> Nil, msg |-> msg, heap |-> heap]

is_truthy(obj) ==
    CASE obj.k = "Nil" -> FALSE
      [] obj.k = "Bool" -> obj.b
      [] obj.k = "Num" -> obj.n # 0
      [] OTHER -> TRUE

eval_bang_operator_expr(right) == Bool(is_falsey(right))

eval_minus_operator_expr(right, heap) ==
    IF right.k = "Num" THEN EOk(Number(0 - right.n), heap)
    ELSE EErr("invalid unary operation", heap)

eval_prefix_expr(operator, right, heap) ==
    CASE operator = "!" -> EOk(eval_bang_operator_expr(right), heap)
      [] operator = "-" -> eval_minus_operator_expr(right, heap)
      [] OTHER -> EErr("invalid prefix operator", heap)

eval_infix_expr(operator, left, right, heap) ==
    CASE left.k = "Num" /\ right.k = "Num" ->
            CASE operator = "+" -> EOk(Arith("Add", left.n, right.n), heap)
              [] operator = "-" -> EOk(Arith("Sub", left.n, right.n), heap)
              [] operator = "*" -> EOk(Arith("Mul", left.n, right.n), heap)
              [] operator = "/" -> EOk(Arith("Div", left.n, right.n), heap)
              [] operator = "<" -> EOk(Bool(left.n < right.n), heap)
              [] operator = ">" -> EOk(Bool(left.n > right.n), heap)
              [] operator = "==" -> EOk(Bool(left.n = right.n), heap)
              [] operator = "!=" -> EOk(Bool(left.n # right.n), heap)
              [] OTHER -> EErr("invalid binary operator", heap)
      [] left.k = "Str" /\ right.k = "Str" ->
            CASE operator = "+" -> EOk(Str(left.s \o right.s), heap)
              [] operator = "==" -> EOk(Bool(left.s = right.s), heap)
              [] operator = "!=" -> EOk(Bool(left.s # right.s), heap)
              [] OTHER -> EErr("invalid binary operator", heap)
      [] left.k = "Str" /\ right.k = "Num" ->
            IF operator = "*" THEN EOk(Str(Repeat(left.s, right.n)), heap)
            ELSE EErr("invalid binary operator", heap)
      [] left.k = "Num" /\ right.k = "Str" ->
            IF operator = "*" THEN EOk(Str(Repeat(right.s, left.n)), heap)
            ELSE EErr("invalid binary operator", heap)
      [] left.k = right.k /\ left.k \in {"Bool", "Arr", "Map"} ->
            CASE operator = "==" -> EOk(Bool(ObjEq(left, right)), heap)
              [] operator = "!=" -> EOk(Bool(~ObjEq(left, right)), heap)
              [] OTHER -> EErr("invalid binary operation", heap)
      [] OTHER -> EErr("invalid binary operation", heap)

eval_identifier_expr(heap, e, name) ==
    IF get(heap, e, name).found THEN EOk(get(heap, e, name).obj, heap)
    ELSE IF \E i \in 1..Len(BUILTINS) : BUILTINS[i] = name THEN EOk(Builtin(name), heap)
    ELSE EErr("Undefined identifier", heap)

eval_function_expr(heap, e, func) == EOk(Func(func.params, func.body, e), heap)

invoke_builtin_function(heap, func, args) ==
    LET r == call_builtin(func.name, args)
    IN  IF r.ok THEN EOk(r.val, heap) ELSE EErr(r.msg, heap)

\* arr.elements[idx as usize] aborts the process when the array has no
\* such element.
eval_array_index_expr(heap, arr, index) ==
    IF index.k = "Num"
    THEN IF NumBelowZero(index) \/ NumAtLeast(index, Len(arr.elements))
         THEN EOk(Nil, heap)
         ELSE IF as_usize(index) + 1 \in 1..Len(arr.elements)
         THEN EOk(arr.elements[as_usize(index) + 1], heap)
         ELSE EPanic("index out of bounds", heap)
    ELSE EErr("invalid index to array object", heap)

eval_hash_index_expr(heap, map, index) ==
    IF ~is_a_valid_key(index)
    THEN EErr("hash key should be a numeric, a string or a boolean", heap)
    ELSE IF index \in DOMAIN map.pairs THEN EOk(map.pairs[index], heap)
    ELSE EOk(Nil, heap)

\* The parameters are bound to args[i]: an index the call may not have.
RECURSIVE BindParams(_, _, _, _, _)
BindParams(heap, e, params, args, i) ==
    IF i > Len(params) THEN EOk(Nil, heap)
    ELSE IF i > Len(args) THEN EPanic("index out of bounds", heap)
    ELSE BindParams(set(heap, e, params[i], args[i]), e, params, args, i + 1)

RECURSIVE eval_statements_nounwrap(_, _, _, _)
RECURSIVE eval_statement(_, _, _, _)
RECURSIVE eval_expression(_, _, _, _)
RECURSIVE eval_expressions(_, _, _, _)
RECURSIVE eval_hash_literal(_, _, _, _)

\* After a statement with outcome r: an error or a Return value ends the
\* block, the Return value staying wrapped.
next_statement(r, e, rest, d) ==
    IF r.st # "ok" \/ r.val.k = "Return" \/ rest = <<>> THEN r
    ELSE eval_statements_nounwrap(r.heap, e, rest, d)

eval_statements_nounwrap(heap, e, statements, d) ==
    IF statements = <<>> THEN EOk(Nil, heap)
    ELSE next_statement(eval_statement(heap, e, Head(statements), d), e,
                        Tail(statements), d)

eval_block_statement(heap, e, stmt, d) == eval_statements_nounwrap(heap, e, stmt, d)

\* The outermost block unwraps a Return value.
unwrap_return(r) ==
    IF r.st = "ok" /\ r.val.k = "Return" THEN EOk(r.val.value, r.heap) ELSE r

eval_statements(heap, e, statements, d) ==
    unwrap_return(eval_statements_nounwrap(heap, e, statements, d))

\* eval_return_stmt, r being the outcome of the expression.
wrap_return(r) == IF r.st # "ok" THEN r ELSE EOk(Return(r.val), r.heap)

\* eval_let_stmt, r being the outcome of the expression.
bind_let(r, e, name) == IF r.st # "ok" THEN r ELSE EOk(Nil, set(r.heap, e, name, r.val))

eval_statement(heap, e, stmt, d) ==
    CASE stmt.s = "Expr" -> eval_expression(heap, e, stmt.value, d)
      [] stmt.s = "Return" -> wrap_return(eval_expression(heap, e, stmt.value, d))
      [] stmt.s = "Let" -> bind_let(eval_expression(heap, e, stmt.value, d), e, stmt.name)
      [] OTHER -> EOk(Nil, heap)

\* The values of the expressions, from left to right, in val.
push_front(v, rest) == IF rest.st # "ok" THEN rest ELSE EOk(<<v>> \o rest.val, rest.heap)

eval_rest(r, e, exprs, d) ==
    IF r.st # "ok" THEN r ELSE push_front(r.val, eval_expressions(r.heap, e, exprs, d))

eval_expressions(heap, e, exprs, d) ==
    IF exprs = <<>> THEN EOk(<<>>, heap)
    ELSE eval_rest(eval_expression(heap, e, Head(exprs), d), e, Tail(exprs), d)

\* The pairs in order, a later pair replacing an earlier one of the same
\* key; the function of the pairs is in val.
insert_pair(pairs, kv) ==
    IF kv.st # "ok" THEN kv
    ELSE IF ~is_a_valid_key(kv.val[1])
    THEN EErr("hash key should be a numeric, a string or a boolean", kv.heap)
    ELSE EOk((kv.val[1] :> kv.val[2]) @@ pairs, kv.heap)

eval_pair(front, e, pair, d) ==
    IF front.st # "ok" THEN front
    ELSE insert_pair(front.val, eval_expressions(front.heap, e, pair, d))

eval_hash_literal(heap, e, pairs, d) ==
    IF pairs = <<>> THEN EOk([key \in {} |-> Nil], heap)
    ELSE eval_pair(eval_hash_literal(heap, e, Front(pairs), d), e, Last(pairs), d)

\* The body of a function in its new environment, bound being the outcome
\* of binding the parameters.
eval_body(bound, e, function, d) ==
    IF bound.st # "ok" THEN bound
    ELSE eval_statements(bound.heap, e, function.body, d - 1)

invoke_function_call(heap, function, args, d) ==
    IF d = 0 THEN EPanic("stack overflow", heap)
    ELSE eval_body(BindParams(new_enclosing(heap, function.env), Len(heap) + 1,
                              function.params, args, 1),
                   Len(heap) + 1, function, d)

apply_prefix(right, operator) ==
    IF right.st # "ok" THEN right ELSE eval_prefix_expr(operator, right.val, right.heap)

apply_infix(both, operator) ==
    IF both.st # "ok" THEN both
    ELSE eval_infix_expr(operator, both.val[1], both.val[2], both.heap)

\* The branch of an if expression, condition being the outcome of its test.
eval_branch(condition, e, expr, d) ==
    IF condition.st # "ok" THEN condition
    ELSE IF is_truthy(condition.val)
    THEN eval_block_statement(condition.heap, e, expr.then_stmt, d)
    ELSE IF expr.else_stmt # <<>>
    THEN eval_block_statement(condition.heap, e, expr.else_stmt[1], d)
    ELSE EOk(Nil, condition.heap)

\* eval_call_expr: the function, then its arguments, then the call.
apply_function(function, args, d) ==
    IF args.st # "ok" THEN args
    ELSE CASE function.k = "Func" -> invoke_function_call(args.heap, function, args.val, d)
           [] function.k = "Builtin" -> invoke_builtin_function(args.heap, function, args.val)
           [] OTHER -> EErr("Not a function", args.heap)

eval_arguments(function, e, expr, d) ==
    IF function.st # "ok" THEN function
    ELSE apply_function(function.val, eval_expressions(function.heap, e, expr.args, d), d)

eval_call_expr(heap, e, expr, d) ==
    eval_arguments(eval_expression(heap, e, expr.func, d), e, expr, d)

make_array(elements) ==
    IF elements.st # "ok" THEN elements ELSE EOk(Arr(elements.val), elements.heap)

make_map(pairs) ==
    IF pairs.st # "ok" THEN pairs ELSE EOk([k |-> "Map", pairs |-> pairs.val], pairs.heap)

\* eval_index_expr: the collection, then the index, then the element.
index_into(obj, index) ==
    IF index.st # "ok" THEN index
    ELSE IF obj.k = "Arr" THEN eval_array_index_expr(index.heap, obj, index.val)
    ELSE eval_hash_index_expr(index.heap, obj, index.val)

eval_index(obj, e, expr, d) ==
    IF obj.st # "ok" THEN obj
    ELSE IF obj.val.k \notin {"Arr", "Map"}
    THEN EErr("index operator not supported", obj.heap)
    ELSE index_into(obj.val, eval_expression(obj.heap, e, expr.index, d))

eval_index_expr(heap, e, expr, d) ==
    eval_index(eval_expression(heap, e, expr.left, d), e, expr, d)

eval_expression(heap, e, expr, d) ==
    CASE expr.t = "Number" -> EOk(Number(expr.value), heap)
      [] expr.t = "Str" -> EOk(Str(expr.value), heap)
      [] expr.t = "Bool" -> EOk(Bool(expr.value), heap)
      [] expr.t = "Unary" ->
            apply_prefix(eval_expression(heap, e, expr.right, d), expr.operator)
      [] expr.t = "Binary" ->
            apply_infix(eval_expressions(heap, e, <<expr.left, expr.right>>, d),
                        expr.operator)
      [] expr.t = "If" ->
            eval_branch(eval_expression(heap, e, expr.condition, d), e, expr, d)
      [] expr.t = "Function" -> eval_function_expr(heap, e, expr)
      [] expr.t = "Ident" -> eval_identifier_expr(heap, e, expr.name)
      [] expr.t = "Call" -> eval_call_expr(heap, e, expr, d)
      [] expr.t = "Array" -> make_array(eval_expressions(heap, e, expr.elements, d))
      [] expr.t = "Hash" -> make_map(eval_hash_literal(heap, e, expr.pairs, d))
      [] expr.t = "Index" -> eval_index_expr(heap, e, expr, d)
      [] OTHER -> EOk(Nil, heap)

eval_program(heap, program) == eval_statements(heap, 1, program, EvalDepth)

(***************************************************************************)
(* The scanner (scanner/mod.rs, scanner/token.rs).  A text is a sequence   *)
(* of characters, each a string of one character, and so is the literal   *)
(* of a token; NUL stands for the character '\0'.  Rust's input[i] is      *)
(* input[i + 1] here.                                                      *)
(***************************************************************************)
NUL == "NUL"

Digits == {"0", "1", "2", "3", "4", "5", "6", "7", "8", "9"}

\* The alphabetic characters the texts of the model are written with.
Alphabetic ==
    {"a", "b", "c", "d", "e", "f", "g", "h", "i", "j", "k", "l", "m", "n", "o", "p",
     "q", "r", "s", "t", "u", "v", "w", "x", "y", "z"}

KEYWORDS ==
    [w \in {"let", "fn", "true", "false", "if", "else", "return"} |->
        CASE w = "let" -> "Let"
          [] w = "fn" -> "Function"
          [] w = "true" -> "True"
          [] w = "false" -> "False"
          [] w = "if" -> "If"
          [] w = "else" -> "Else"
          [] w = "return" -> "Return"]

\* The sequence of characters as one string: the key of a table, the name
\* of an identifier or of an operator in the tree.
RECURSIVE Collect(_)
Collect(chars) == IF chars = <<>> THEN "" ELSE Head(chars) \o Collect(Tail(chars))

Token(ttype, literal, line) == [ttype |-> ttype, literal |-> literal, line |-> line]

read_char(s) ==
    [s EXCEPT !.ch = IF s.read_position >= Len(s.input) THEN NUL
                     ELSE s.input[s.read_position + 1],
              !.position = s.read_position,
              !.read_position = s.read_position + 1]

\* Scanner::new
new_scanner(source) ==
    read_char([input |-> source, position |-> 0, read_position |-> 0, ch |-> NUL,
               line |-> 1])

peek_char(s) ==
    IF s.read_position >= Len(s.input) THEN NUL ELSE s.input[s.read_position + 1]

is_identifier_first(ch) == ch \in Alphabetic \/ ch = "_"

is_identifier_remaining(ch) == ch \in Alphabetic \/ ch \in Digits \/ ch = "_"

lookup_identifier(identifier) ==
    IF Collect(identifier) \in DOMAIN KEYWORDS THEN KEYWORDS[Collect(identifier)]
    ELSE "Identifier"

RECURSIVE skip_whitespace(_)
skip_whitespace(s) ==
    CASE s.ch \in {" ", "\t"} -> skip_whitespace(read_char(s))
      [] s.ch \in {"\n", "\r"} -> skip_whitespace(read_char([s EXCEPT !.line = s.line + 1]))
      [] OTHER -> s

\* The inner loop of skip_comments: characters are read up to the end of
\* the line or of the input.
RECURSIVE skip_line(_)
skip_line(s) ==
    IF read_char(s).ch \in {"\n", NUL} THEN read_char(s) ELSE skip_line(read_char(s))

RECURSIVE skip_comments(_)
skip_comments(s) ==
    IF s.ch = "/" /\ peek_char(s) = "/" THEN skip_comments(skip_whitespace(skip_line(s)))
    ELSE s

\* The characters input[from..position] as the literal of a token.
Slice(s, from) == SubSeq(s.input, from + 1, s.position)

make_token(s, ttype, literal) == Token(ttype, literal, s.line)

make_token_ch(s, ttype) == make_token(s, ttype, <<s.ch>>)

\* The scanner and the token that a scanning function leaves.
Scanned(s, token) == [scanner |-> s, token |-> token]

make_token_twin(s, next, single, twin) ==
    IF peek_char(s) = next
    THEN Scanned(read_char(s), make_token(read_char(s), twin, <<s.ch, next>>))
    ELSE Scanned(s, make_token_ch(s, single))

RECURSIVE WhileIdentifier(_)
WhileIdentifier(s) ==
    IF is_identifier_remaining(s.ch) THEN WhileIdentifier(read_char(s)) ELSE s

read_identifier_from(s, position) ==
    Scanned(s, make_token(s, lookup_identifier(Slice(s, position)), Slice(s, position)))

read_identifier(s) == read_identifier_from(WhileIdentifier(s), s.position)

RECURSIVE WhileDigit(_)
WhileDigit(s) == IF s.ch \in Digits THEN WhileDigit(read_char(s)) ELSE s

read_number_from(s, position) == Scanned(s, make_token(s, "Number", Slice(s, position)))

read_number(s) == read_number_from(WhileDigit(s), s.position)

RECURSIVE UntilQuote(_)
UntilQuote(s) ==
    IF read_char(s).ch \in {"\"", NUL} THEN read_char(s) ELSE UntilQuote(read_char(s))

read_string_from(s, position) == Scanned(s, make_token(s, "Str", Slice(s, position)))

read_string(s) == read_string_from(UntilQuote(s), s.position + 1)

\* The arms of next_token that end with the read_char after the match.
SingleCharacter ==
    [c \in {";", ",", ":", "(", ")", "{", "}", "[", "]", "+", "-", "*", "/"} |->
        CASE c = ";" -> "Semicolon"
          [] c = "," -> "Comma"
          [] c = ":" -> "Colon"
          [] c = "(" -> "LeftParen"
          [] c = ")" -> "RightParen"
          [] c = "{" -> "LeftBrace"
          [] c = "}" -> "RightBrace"
          [] c = "[" -> "LeftBracket"
          [] c = "]" -> "RightBracket"
          [] c = "+" -> "Plus"
          [] c = "-" -> "Minus"
          [] c = "*" -> "Asterisk"
          [] c = "/" -> "Slash"]

match_ch(s) ==
    CASE s.ch = NUL -> Scanned(s, make_token(s, "Eof", <<>>))
      [] s.ch \in DOMAIN SingleCharacter -> Scanned(s, make_token_ch(s, SingleCharacter[s.ch]))
      [] s.ch = "=" -> make_token_twin(s, "=", "Assign", "Equal")
      [] s.ch = "!" -> make_token_twin(s, "=", "Bang", "BangEqual")
      [] s.ch = "<" -> make_token_twin(s, "=", "Less", "LessEqual")
      [] s.ch = ">" -> make_token_twin(s, "=", "Greater", "GreaterEqual")
      [] s.ch = "\"" -> read_string(s)
      [] OTHER -> Scanned(s, make_token(s, "Illegal", <<s.ch>>))

after_match(r) == Scanned(read_char(r.scanner), r.token)

scan_token(s) ==
    CASE s.ch \in DOMAIN SingleCharacter \cup {NUL, "=", "!", "<", ">", "\""} ->
            after_match(match_ch(s))
      [] is_identifier_first(s.ch) -> read_identifier(s)
      [] s.ch \in Digits -> read_number(s)
      [] OTHER -> after_match(match_ch(s))

next_token(s) == scan_token(skip_comments(skip_whitespace(s)))

(***************************************************************************)
(* The parser (parser/mod.rs, parser/rules.rs, parser/precedence.rs).  A   *)
(* parsing function yields the parser it leaves and the node it has made.  *)
(***************************************************************************)
Precedence ==
    [Lowest |-> 0, Assignment |-> 1, Or |-> 2, And |-> 3, Equality |-> 4,
     Comparison |-> 5, Term |-> 6, Factor |-> 7, Unary |-> 8, Call |-> 9, Primary |-> 10]

TokenType ==
    {"Illegal", "Eof", "Identifier", "Number", "Str", "Assign", "Plus", "Minus", "Bang",
     "Asterisk", "Slash", "Less", "LessEqual", "Greater", "GreaterEqual", "Equal",
     "BangEqual", "Comma", "Semicolon", "Colon", "LeftParen", "RightParen", "LeftBrace",
     "RightBrace", "LeftBracket", "RightBracket", "Function", "Let", "True", "False",
     "If", "Else", "Return"}

\* ParseRule::new; "" stands for None.
ParseRule(prefix, infix, precedence) ==
    [prefix |-> prefix, infix |-> infix, precedence |-> precedence]

PARSE_RULES ==
    [ttype \in TokenType |->
        CASE ttype = "Identifier" -> ParseRule("parse_identifier", "", Precedence.Lowest)
          [] ttype = "Number" -> ParseRule("parse_number", "", Precedence.Lowest)
          [] ttype = "Str" -> ParseRule("parse_string", "", Precedence.Lowest)
          [] ttype = "Bang" -> ParseRule("parse_prefix_expression", "", Precedence.Lowest)
          [] ttype \in {"Equal", "BangEqual"} ->
                ParseRule("", "parse_infix_expression", Precedence.Equality)
          [] ttype \in {"Less", "Greater"} ->
                ParseRule("", "parse_infix_expression", Precedence.Comparison)
          [] ttype = "Plus" -> ParseRule("", "parse_infix_expression", Precedence.Term)
          [] ttype = "Minus" ->
                ParseRule("parse_prefix_expression", "parse_infix_expression",
                          Precedence.Term)
          [] ttype \in {"Asterisk", "Slash"} ->
                ParseRule("", "parse_infix_expression", Precedence.Factor)
          [] ttype \in {"True", "False"} -> ParseRule("parse_boolean", "", Precedence.Lowest)
          [] ttype = "LeftParen" ->
                ParseRule("parse_grouped", "parse_call_expression", Precedence.Call)
          [] ttype = "If" -> ParseRule("parse_if_expr", "", Precedence.Lowest)
          [] ttype = "Function" ->
                ParseRule("parse_function_literal", "", Precedence.Lowest)
          [] ttype = "LeftBracket" -> ParseRule("parse_array_literal", "", Precedence.Lowest)
          [] OTHER -> ParseRule("", "", Precedence.Lowest)]

\* Expression::Nil and Statement::Nil, and a let statement as the parser
\* makes it.
ENil == [t |-> "Nil", line |-> 1]

SNil == [s |-> "Nil", line |-> 1]

LetStmt(name, value) == [s |-> "Let", name |-> name, value |-> value, line |-> 1]

Parsed(p, e) == [p |-> p, e |-> e]

\* Parser::next_token
advance(p) ==
    [p EXCEPT !.current = p.peek_next,
              !.peek_next = next_token(p.scanner).token,
              !.scanner = next_token(p.scanner).scanner]

\* Parser::new
new_parser(s) == advance(advance([scanner |-> s, current |-> Token("Illegal", <<>>, 0),
                                  peek_next |-> Token("Illegal", <<>>, 0),
                                  errors |-> <<>>]))

curr_token_is(p, ttype) == p.current.ttype = ttype

peek_token_is(p, ttype) == p.peek_next.ttype = ttype

\* A push_error that keeps only the error it is given.
push_error_alone(p, err) ==
    [p EXCEPT !.errors = <<[line |-> p.scanner.line, msg |-> err]>>]

push_error(p, err) ==
    [p EXCEPT !.errors = Append(p.errors, [line |-> p.scanner.line, msg |-> err])]

peek_error(p, ttype) ==
    push_error(p, [expected |-> ttype, got |-> p.peek_next.ttype])

no_prefix_parse_error(p, ttype) == push_error(p, [no_prefix_parser_for |-> ttype])

expect_peek(p, ttype) ==
    IF peek_token_is(p, ttype) THEN [p |-> advance(p), ok |-> TRUE]
    ELSE [p |-> peek_error(p, ttype), ok |-> FALSE]

peek_precedence(p) == PARSE_RULES[p.peek_next.ttype].precedence

curr_precedence(p) == PARSE_RULES[p.current.ttype].precedence

\* The f64 of a literal of digits.
DigitValue ==
    [c \in Digits |->
        CASE c = "0" -> 0 [] c = "1" -> 1 [] c = "2" -> 2 [] c = "3" -> 3 [] c = "4" -> 4
          [] c = "5" -> 5 [] c = "6" -> 6 [] c = "7" -> 7 [] c = "8" -> 8 [] c = "9" -> 9]

RECURSIVE ParseF64(_)
ParseF64(literal) ==
    IF literal = <<>> THEN 0 ELSE 10 * ParseF64(Front(literal)) + DigitValue[Last(literal)]

parse_identifier(p) == Parsed(p, EIdent(Collect(p.current.literal)))

parse_number(p) == Parsed(p, ENum(ParseF64(p.current.literal)))

parse_string(p) == Parsed(p, EStr(p.current.literal))

parse_boolean(p) == Parsed(p, EBool(curr_token_is(p, "True")))

skip_semicolon(p) == IF peek_token_is(p, "Semicolon") THEN advance(p) ELSE p

RECURSIVE parse_expression(_, _)
RECURSIVE parse_statement(_)

\* parse_block_statement: statements are parsed up to the closing brace or
\* the end of the input.
RECURSIVE block_loop(_, _)
RECURSIVE block_push(_, _)
block_loop(p, statements) ==
    IF curr_token_is(p, "RightBrace") \/ curr_token_is(p, "Eof") THEN Parsed(p, statements)
    ELSE block_push(parse_statement(p), statements)

block_push(r, statements) == block_loop(advance(r.p), Append(statements, r.e))

parse_block_statement(p) == block_loop(advance(p), <<>>)

\* The list comes back empty when the token that ends it is missing.
close_list(x, items) == Parsed(x.p, IF x.ok THEN items ELSE <<>>)

RECURSIVE params_loop(_, _)
params_loop(p, identifiers) ==
    IF peek_token_is(p, "Comma")
    THEN params_loop(advance(advance(p)),
                     Append(identifiers, Collect(advance(advance(p)).current.literal)))
    ELSE close_list(expect_peek(p, "RightParen"), identifiers)

parse_function_params(p) ==
    IF peek_token_is(p, "RightParen") THEN Parsed(advance(p), <<>>)
    ELSE params_loop(advance(p), <<Collect(advance(p).current.literal)>>)

\* r is the element parsed last.
RECURSIVE list_loop(_, _, _)
list_loop(r, args, ttype_end) ==
    IF peek_token_is(r.p, "Comma")
    THEN list_loop(parse_expression(advance(advance(r.p)), Precedence.Lowest),
                   Append(args, r.e), ttype_end)
    ELSE close_list(expect_peek(r.p, ttype_end), Append(args, r.e))

parse_expression_list(p, ttype_end) ==
    IF peek_token_is(p, ttype_end) THEN Parsed(advance(p), <<>>)
    ELSE list_loop(parse_expression(advance(p), Precedence.Lowest), <<>>, ttype_end)

unary_of(token, r) == Parsed(r.p, EUnary(Collect(token.literal), r.e))

parse_prefix_expression(p) ==
    unary_of(p.current, parse_expression(advance(p), Precedence.Unary))

binary_of(left, token, r) == Parsed(r.p, EBinary(left, Collect(token.literal), r.e))

\* A right operand parsed at the precedence below that of the operator, so
\* that an operator of the same precedence joins it.
parse_infix_expression_right_first(p, left) ==
    binary_of(left, p.current,
              parse_expression(advance(p), curr_precedence(p) - 1))

parse_infix_expression(p, left) ==
    binary_of(left, p.current, parse_expression(advance(p), curr_precedence(p)))

grouped_of(r, x) == IF x.ok THEN Parsed(x.p, r.e) ELSE Parsed(x.p, ENil)

close_group(r) == grouped_of(r, expect_peek(r.p, "RightParen"))

parse_grouped(p) == close_group(parse_expression(advance(p), Precedence.Lowest))

then_expect(x, ttype) == IF x.ok THEN expect_peek(x.p, ttype) ELSE x

if_else_of(condition, then_stmt, b) == Parsed(b.p, EIfElse(condition, then_stmt, b.e))

if_else_block(condition, then_stmt, x) ==
    IF ~x.ok THEN Parsed(x.p, ENil)
    ELSE if_else_of(condition, then_stmt, parse_block_statement(x.p))

if_else(condition, b) ==
    IF peek_token_is(b.p, "Else")
    THEN if_else_block(condition, b.e, expect_peek(advance(b.p), "LeftBrace"))
    ELSE Parsed(b.p, EIf(condition, b.e))

if_then_block(condition, x) ==
    IF ~x.ok THEN Parsed(x.p, ENil) ELSE if_else(condition, parse_block_statement(x.p))

if_then(c) ==
    if_then_block(c.e, then_expect(expect_peek(c.p, "RightParen"), "LeftBrace"))

if_condition(x) ==
    IF ~x.ok THEN Parsed(x.p, ENil)
    ELSE if_then(parse_expression(advance(x.p), Precedence.Lowest))

parse_if_expr(p) == if_condition(expect_peek(p, "LeftParen"))

function_of(params, b) == Parsed(b.p, EFn(params, b.e))

function_body(params, x) ==
    IF ~x.ok THEN Parsed(x.p, ENil) ELSE function_of(params, parse_block_statement(x.p))

function_params(r) == function_body(r.e, expect_peek(r.p, "LeftBrace"))

parse_function_literal_after(x) ==
    IF ~x.ok THEN Parsed(x.p, ENil) ELSE function_params(parse_function_params(x.p))

parse_function_literal(p) == parse_function_literal_after(expect_peek(p, "LeftParen"))

call_of(func, r) == Parsed(r.p, ECall(func, r.e))

parse_call_expression(p, func) == call_of(func, parse_expression_list(p, "RightParen"))

array_of(r) == Parsed(r.p, EArray(r.e))

parse_array_literal(p) == array_of(parse_expression_list(p, "RightBracket"))

\* The prefix and the infix parsing function of a rule, called.
prefix(rule, p) ==
    CASE rule = "parse_identifier" -> parse_identifier(p)
      [] rule = "parse_number" -> parse_number(p)
      [] rule = "parse_string" -> parse_string(p)
      [] rule = "parse_prefix_expression" -> parse_prefix_expression(p)
      [] rule = "parse_boolean" -> parse_boolean(p)
      [] rule = "parse_grouped" -> parse_grouped(p)
      [] rule = "parse_if_expr" -> parse_if_expr(p)
      [] rule = "parse_function_literal" -> parse_function_literal(p)
      [] rule = "parse_array_literal" -> parse_array_literal(p)

infix(rule, p, left_expr) ==
    CASE rule = "parse_infix_expression" -> parse_infix_expression(p, left_expr)
      [] rule = "parse_call_expression" -> parse_call_expression(p, left_expr)

\* The loop of parse_expression: left is the parser and the expression so far.
RECURSIVE infix_loop(_, _)
infix_loop(left, precedence) ==
    IF ~peek_token_is(left.p, "Semicolon") /\ precedence < peek_precedence(left.p)
    THEN IF PARSE_RULES[left.p.peek_next.ttype].infix # ""
         THEN infix_loop(infix(PARSE_RULES[left.p.peek_next.ttype].infix,
                               advance(left.p), left.e),
                         precedence)
         ELSE left
    ELSE left

parse_expression(p, precedence) ==
    IF PARSE_RULES[p.current.ttype].prefix # ""
    THEN infix_loop(prefix(PARSE_RULES[p.current.ttype].prefix, p), precedence)
    ELSE Parsed(no_prefix_parse_error(p, p.current.ttype), ENil)

let_of(token_ident, r) ==
    Parsed(skip_semicolon(r.p), LetStmt(Collect(token_ident.literal), r.e))

let_assign(token_ident, x) ==
    IF ~x.ok THEN Parsed(x.p, SNil)
    ELSE let_of(token_ident, parse_expression(advance(x.p), Precedence.Lowest))

let_name(x) ==
    IF ~x.ok THEN Parsed(x.p, SNil)
    ELSE let_assign(x.p.current, expect_peek(x.p, "Assign"))

parse_let_statement(p) == let_name(expect_peek(p, "Identifier"))

return_of(r) == Parsed(skip_semicolon(r.p), SReturn(r.e))

parse_return_statement(p) == return_of(parse_expression(advance(p), Precedence.Lowest))

expr_of(r) == Parsed(skip_semicolon(r.p), SExpr(r.e))

parse_expr_statement(p) == expr_of(parse_expression(p, Precedence.Lowest))

parse_statement(p) ==
    CASE p.current.ttype = "Let" -> parse_let_statement(p)
      [] p.current.ttype = "Return" -> parse_return_statement(p)
      [] OTHER -> parse_expr_statement(p)

(***************************************************************************)
(* The programs the driver is given.  A line of input is the program the   *)
(* parser makes of it: a sequence of statements.                           *)
(***************************************************************************)
CountDown ==
    EFn(<<"x">>, <<SExpr(EIfElse(EBinary(EIdent("x"), "==", ENum(0)),
                                 <<SExpr(ENum(0))>>,
                                 <<SExpr(ECall(EIdent("countDown"),
                                               <<EBinary(EIdent("x"), "-", ENum(1))>>))>>))>>)

\* 1 + 2 * 3
PArith == <<SExpr(EBinary(ENum(1), "+", EBinary(ENum(2), "*", ENum(3))))>>

\* let a = 5; a + 1
PLetUse == <<SLet("a", ENum(5)), SExpr(EBinary(EIdent("a"), "+", ENum(1)))>>

\* let x = 5
PLetOnly == <<SLet("x", ENum(5))>>

\* if (1 < 2) { 10 } else { 20 }
PIfElse ==
    <<SExpr(EIfElse(EBinary(ENum(1), "<", ENum(2)), <<SExpr(ENum(10))>>,
                    <<SExpr(ENum(20))>>))>>

\* if (false) { 10 }
PIfNoElse == <<SExpr(EIf(EBool(FALSE), <<SExpr(ENum(10))>>))>>

\* if (0) { 10 } else { 20 }
PIfZero == <<SExpr(EIfElse(ENum(0), <<SExpr(ENum(10))>>, <<SExpr(ENum(20))>>))>>

\* if (true) { }
PIfEmpty == <<SExpr(EIf(EBool(TRUE), <<>>))>>

\* if (true) { let a = 1 }
PIfLet == <<SExpr(EIf(EBool(TRUE), <<SLet("a", ENum(1))>>))>>

\* if (false) { 1 } else { }
PIfEmptyElse == <<SExpr(EIfElse(EBool(FALSE), <<SExpr(ENum(1))>>, <<>>))>>

\* let add = fn(a, b) { a + b }; add(1, 2)
PCall ==
    <<SLet("add", EFn(<<"a", "b">>, <<SExpr(EBinary(EIdent("a"), "+", EIdent("b")))>>)),
      SExpr(ECall(EIdent("add"), <<ENum(1), ENum(2)>>))>>

\* let f = fn() { }; f()
PCallNoReturn == <<SLet("f", EFn(<<>>, <<>>)), SExpr(ECall(EIdent("f"), <<>>))>>

\* let f = fn(a) { let b = a * 2; b + 1 }; 4 + f(3)
PCallLocals ==
    <<SLet("f", EFn(<<"a">>, <<SLet("b", EBinary(EIdent("a"), "*", ENum(2))),
                              SExpr(EBinary(EIdent("b"), "+", ENum(1)))>>)),
      SExpr(EBinary(ENum(4), "+", ECall(EIdent("f"), <<ENum(3)>>)))>>

\* fn() { return 7; 8 }()
PReturnInFn == <<SExpr(ECall(EFn(<<>>, <<SReturn(ENum(7)), SExpr(ENum(8))>>), <<>>))>>

\* fn() { if (true) { 1 } }()
PIfInFn ==
    <<SExpr(ECall(EFn(<<>>, <<SExpr(EIf(EBool(TRUE), <<SExpr(ENum(1))>>))>>), <<>>))>>

\* fn(a, b) { a }(1)
PArityFew == <<SExpr(ECall(EFn(<<"a", "b">>, <<SExpr(EIdent("a"))>>), <<ENum(1)>>))>>

\* fn(a) { a }(1, 2)
PArityMany == <<SExpr(ECall(EFn(<<"a">>, <<SExpr(EIdent("a"))>>), <<ENum(1), ENum(2)>>))>>

\* let newAdder = fn(a) { fn(b) { a + b } }; newAdder(2)(3)
PClosure ==
    <<SLet("newAdder",
           EFn(<<"a">>, <<SExpr(EFn(<<"b">>,
                                    <<SExpr(EBinary(EIdent("a"), "+", EIdent("b")))>>))>>)),
      SExpr(ECall(ECall(EIdent("newAdder"), <<ENum(2)>>), <<ENum(3)>>))>>

\* fn(a) { fn(b) { fn(c) { a + b + c } } }(1)(2)(3)
PNestedClosure ==
    <<SExpr(ECall(ECall(ECall(
        EFn(<<"a">>,
            <<SExpr(EFn(<<"b">>,
                <<SExpr(EFn(<<"c">>,
                    <<SExpr(EBinary(EBinary(EIdent("a"), "+", EIdent("b")), "+",
                                    EIdent("c")))>>))>>))>>),
        <<ENum(1)>>), <<ENum(2)>>), <<ENum(3)>>))>>

\* fn(a, b) { let c = 7; fn() { c - b - a } }(1, 5)()
PClosureOrder ==
    <<SExpr(ECall(ECall(
        EFn(<<"a", "b">>,
            <<SLet("c", ENum(7)),
              SExpr(EFn(<<>>, <<SExpr(EBinary(EBinary(EIdent("c"), "-", EIdent("b")), "-",
                                              EIdent("a")))>>))>>),
        <<ENum(1), ENum(5)>>), <<>>))>>

\* let countDown = fn(x) { if (x == 0) { 0 } else { countDown(x - 1) } }; countDown(2)
PRecursive ==
    <<SLet("countDown", CountDown), SExpr(ECall(EIdent("countDown"), <<ENum(2)>>))>>

\* let wrapper = fn() { let countDown = fn(x) { ... }; countDown(2) }; wrapper()
PRecursiveNested ==
    <<SLet("wrapper", EFn(<<>>, <<SLet("countDown", CountDown),
                                  SExpr(ECall(EIdent("countDown"), <<ENum(2)>>))>>)),
      SExpr(ECall(EIdent("wrapper"), <<>>))>>

\* return 5
PTopReturn == <<SReturn(ENum(5))>>

\* b
PUndefined == <<SExpr(EIdent("b"))>>

\* [1, 2, 3][1]
PArrayIndex == <<SExpr(EIndex(EArray(<<ENum(1), ENum(2), ENum(3)>>), ENum(1)))>>

\* {1: 2}[1]
PHashIndex == <<SExpr(EIndex(EHash(<<<<ENum(1), ENum(2)>>>>), ENum(1)))>>

\* len(push([1], 2))
PBuiltins ==
    <<SExpr(ECall(EIdent("len"), <<ECall(EIdent("push"), <<EArray(<<ENum(1)>>), ENum(2)>>)>>))>>

\* "a" + "b"
PStrings == <<SExpr(EBinary(EStr(<<97>>), "+", EStr(<<98>>)))>>

\* !(-5 > 1)
PUnary == <<SExpr(EUnary("!", EBinary(EUnary("-", ENum(5)), ">", ENum(1))))>>

\* 6 / 2 != 3
PDivide == <<SExpr(EBinary(EBinary(ENum(6), "/", ENum(2)), "!=", ENum(3)))>>

\* 1 + fn() { if (true) { }; if (true) { }; 5 }()
PClobber ==
    <<SExpr(EBinary(ENum(1), "+",
                    ECall(EFn(<<>>, <<SExpr(EIf(EBool(TRUE), <<>>)),
                                      SExpr(EIf(EBool(TRUE), <<>>)),
                                      SExpr(ENum(5))>>), <<>>)))>>

\* fn() { let a = 1 }()
PFnLet == <<SExpr(ECall(EFn(<<>>, <<SLet("a", ENum(1))>>), <<>>))>>

\* if (true) { if (false) { 1 } } else { if (true) { 2 } else { 3 } }
PNestedIf ==
    <<SExpr(EIfElse(EBool(TRUE),
                    <<SExpr(EIf(EBool(FALSE), <<SExpr(ENum(1))>>))>>,
                    <<SExpr(EIfElse(EBool(TRUE), <<SExpr(ENum(2))>>,
                                    <<SExpr(ENum(3))>>))>>))>>

\* fn(x) { if (x) { if (x) { return 1 } }; 2 }(true)
PIfReturnInFn ==
    <<SExpr(ECall(EFn(<<"x">>,
                      <<SExpr(EIf(EIdent("x"),
                                  <<SExpr(EIf(EIdent("x"), <<SReturn(ENum(1))>>))>>)),
                        SExpr(ENum(2))>>),
                  <<EBool(TRUE)>>))>>

\* {[1]: 2}
PHashBadKey == <<SExpr(EHash(<<<<EArray(<<ENum(1)>>), ENum(2)>>>>))>>

\* {1: 2, fn() { }: 3}
PHashFnKey ==
    <<SExpr(EHash(<<<<ENum(1), ENum(2)>>, <<EFn(<<>>, <<>>), ENum(3)>>>>))>>

\* [1][-1]
PArrayNegative == <<SExpr(EIndex(EArray(<<ENum(1)>>), EUnary("-", ENum(1))))>>

\* [1, 2, 3][99]
PArrayFar == <<SExpr(EIndex(EArray(<<ENum(1), ENum(2), ENum(3)>>), ENum(99)))>>

\* [7, 8][0 / 0]
PArrayNaN ==
    <<SExpr(EIndex(EArray(<<ENum(7), ENum(8)>>), EBinary(ENum(0), "/", ENum(0))))>>

\* [][0 / 0]
PEmptyNaN == <<SExpr(EIndex(EArray(<<>>), EBinary(ENum(0), "/", ENum(0))))>>

\* {1: 1}[0]
PHashAbsent == <<SExpr(EIndex(EHash(<<<<ENum(1), ENum(1)>>>>), ENum(0)))>>

\* 1[0]
PIndexNumber == <<SExpr(EIndex(ENum(1), ENum(0)))>>

\* "b" > "a"
PStringsGreater == <<SExpr(EBinary(EStr(<<98>>), ">", EStr(<<97>>)))>>

\* 2 > 1
PNumbersGreater == <<SExpr(EBinary(ENum(2), ">", ENum(1)))>>

\* The number of locals of the function of PDeep.
DeepLocals == 32

\* let f = fn() { f(); let a = 0; ... let a = 0 }; f()
PDeep ==
    <<SLet("f", EFn(<<>>, <<SExpr(ECall(EIdent("f"), <<>>))>>
                          \o [i \in 1..DeepLocals |-> SLet("a", ENum(0))])),
      SExpr(ECall(EIdent("f"), <<>>))>>

\* let f = fn(x) { if (x) { 1 } else { fn() { f(true) }() + 1 } }; f(false)
PNestedSelf ==
    <<SLet("f", EFn(<<"x">>,
                    <<SExpr(EIfElse(EIdent("x"),
                                    <<SExpr(ENum(1))>>,
                                    <<SExpr(EBinary(
                                        ECall(EFn(<<>>, <<SExpr(ECall(EIdent("f"),
                                                                      <<EBool(TRUE)>>))>>),
                                              <<>>),
                                        "+", ENum(1)))>>))>>)),
      SExpr(ECall(EIdent("f"), <<EBool(FALSE)>>))>>

\* let a = [1, 2];
\* let h = fn(x) { let b = push(x, 3); let c = rest(x); let g = fn() { x };
\*                 let d = [x];
\*                 [len(a), len(x), len(b), len(c), len(g()), len(first(d))] };
\* h(a)
PPushRest ==
    <<SLet("a", EArray(<<ENum(1), ENum(2)>>)),
      SLet("h", EFn(<<"x">>,
          <<SLet("b", ECall(EIdent("push"), <<EIdent("x"), ENum(3)>>)),
            SLet("c", ECall(EIdent("rest"), <<EIdent("x")>>)),
            SLet("g", EFn(<<>>, <<SExpr(EIdent("x"))>>)),
            SLet("d", EArray(<<EIdent("x")>>)),
            SExpr(EArray(<<ECall(EIdent("len"), <<EIdent("a")>>),
                           ECall(EIdent("len"), <<EIdent("x")>>),
                           ECall(EIdent("len"), <<EIdent("b")>>),
                           ECall(EIdent("len"), <<EIdent("c")>>),
                           ECall(EIdent("len"), <<ECall(EIdent("g"), <<>>)>>),
                           ECall(EIdent("len"),
                                 <<ECall(EIdent("first"), <<EIdent("d")>>)>>)>>))>>)),
      SExpr(ECall(EIdent("h"), <<EIdent("a")>>))>>

\* a op b for the numbers 1 and 2 and the binary operators of integers
ComparedOperators == {"<", ">", "-", "+", "*", "==", "!="}

PBinary(a, op, b) == <<SExpr(EBinary(ENum(a), op, ENum(b)))>>

BinaryPrograms == {PBinary(a, op, b) : a \in {1, 2}, b \in {1, 2}, op \in ComparedOperators}

\* // a comment: the program of no statement
PEmpty == <<>>

Programs ==
    {PEmpty, PNestedSelf, PPushRest, PArith, PLetUse, PLetOnly, PIfElse, PIfNoElse, PIfZero, PIfEmpty, PIfLet,
     PIfEmptyElse, PCall, PCallNoReturn, PCallLocals, PReturnInFn, PIfInFn, PArityFew,
     PArityMany, PClosure, PNestedClosure, PClosureOrder, PRecursive, PRecursiveNested,
     PTopReturn, PUndefined, PArrayIndex, PHashIndex, PBuiltins, PStrings, PUnary,
     PDivide, PClobber, PDeep, PFnLet, PNestedIf, PIfReturnInFn,
     PHashBadKey, PHashFnKey, PArrayNegative, PArrayFar, PArrayNaN, PEmptyNaN,
     PHashAbsent, PIndexNumber, PStringsGreater, PNumbersGreater}
    \cup BinaryPrograms

\* let a = 1
LLetA1 == <<SLet("a", ENum(1))>>

\* let a = 2
LLetA2 == <<SLet("a", ENum(2))>>

\* a
LUseA == <<SExpr(EIdent("a"))>>

\* let g = fn() { 7 }
LLetG == <<SLet("g", EFn(<<>>, <<SExpr(ENum(7))>>))>>

\* g() + 1
LCallG == <<SExpr(EBinary(ECall(EIdent("g"), <<>>), "+", ENum(1)))>>

\* let c = 3; -true
LSetThenFail == <<SLet("c", ENum(3)), SExpr(EUnary("-", EBool(TRUE)))>>

ReplLines == {LLetA1, LLetA2, LUseA, LLetG, LCallG, LSetThenFail, PUndefined}

\* The longest session of several lines.
MaxLines == 3

\* The sessions: one line of any program, or up to MaxLines REPL lines.
Inputs ==
    {<<p>> : p \in Programs}
    \cup UNION {[1..n -> ReplLines] : n \in 1..MaxLines}

(***************************************************************************)
(* The REPL driver (main.rs, run_prompt).  lines is the standard input and *)
(* lineno the number of lines read; symtab, constants, globals and         *)
(* environment are the locals that outlive a line; compiler and vm are     *)
(* those of the line in execution; out is what has been printed.           *)
(* pc: "prompt" (reading), "running" (inside vm.run), "exited"             *)
(* (run_prompt returned), "crashed" (the process panicked).                *)
(***************************************************************************)
VARIABLES lines, lineno, ast_eval, pc, symtab, constants, globals, environment,
          compiler, vm, out

\* The variables of the unit specifications, which exercise the symbol
\* table and the instruction encoding on their own as the unit tests of
\* the repository do: table is a symbol table with its chain of outer
\* tables, call the last call made on it, defined the number of define
\* calls made on each table entered so far, and codec an instruction under
\* encoding and decoding.  The driver leaves them alone.
VARIABLES table, call, defined, codec

\* The variables of the specifications of the front end: scanner is a
\* Scanner and tokens the tokens its next_token has returned so far; parser
\* is a Parser and parsed the statements its parse_program has pushed.
VARIABLES scanner, tokens, parser, parsed

front == <<scanner, tokens, parser, parsed>>

\* The variable of the specification of the compiler's buffers: bench holds a
\* Compiler, the compilers saved at each enter_scope still open, and a record
\* of the last call made on it.
VARIABLE bench

\* The variable of the specification of format_buf: format holds the pieces
\* of a format string and the value arguments, and the Result that
\* format_buf has returned for them.
VARIABLE format

units == <<table, call, defined, codec, front, bench, format>>

vars == <<lines, lineno, ast_eval, pc, symtab, constants, globals, environment,
          compiler, vm, out, table, call, defined, codec, scanner, tokens, parser,
          parsed, bench, format>>

\* Scanner::default, Token::default and Parser::default.
NoScanner == [input |-> <<>>, position |-> 0, read_position |-> 0, ch |-> NUL, line |-> 0]

NoToken == Token("Illegal", <<>>, 0)

NoParser ==
    [scanner |-> NoScanner, current |-> NoToken, peek_next |-> NoToken, errors |-> <<>>]

\* The variables of the front end at rest.
FrontIdle ==
    /\ scanner = NoScanner
    /\ tokens = <<>>
    /\ parser = NoParser
    /\ parsed = <<>>

NoCall ==
    [op |-> "none", name |-> "", before |-> <<>>, found |-> FALSE, sym |-> NoSymbol,
     n |-> 0]

\* No call has been made on the compiler of the bench.
NoLast == [op |-> "none", name |-> "", saved |-> new_compiler,
           returned |-> NoInstructions, n |-> 0]

NoBench == [c |-> new_compiler, entered |-> <<>>, last |-> NoLast]

NoFormat == [pieces |-> <<>>, values |-> <<>>, result |-> Err(""), step |-> "none"]

NoCodec == [op |-> "Invalid", operands |-> <<>>, made |-> NoInstructions,
            read |-> <<>>, step |-> "none"]

\* The unit variables at rest.
UnitsIdle ==
    /\ table = <<EmptyTable>>
    /\ call = NoCall
    /\ defined = <<0>>
    /\ codec = NoCodec
    /\ FrontIdle
    /\ bench = NoBench
    /\ format = NoFormat

\* The deepest frame stack the model follows.
MaxFrames == 130

\* No machine has been built yet.
NoVM ==
    [constants |-> <<>>, stack |-> <<>>, sp |-> 0, globals |-> NoGlobals,
     frames |-> <<>>, status |-> "none", error |-> ""]

Init ==
    /\ lines \in Inputs
    /\ lineno = 0
    /\ ast_eval \in BOOLEAN
    /\ pc = "prompt"
    /\ symtab = DefineBuiltins(<<EmptyTable>>, 1)
    /\ constants = <<>>
    /\ globals = NoGlobals
    /\ environment = NewHeap
    /\ compiler = new_compiler
    /\ vm = NoVM
    /\ out = <<>>
    /\ UnitsIdle

\* A line is read and, with AST_EVAL set, evaluated: the value is printed
\* unless it is Nil, an error is printed, and the loop goes on.
EvalLine ==
    /\ UNCHANGED units
    /\ pc = "prompt"
    /\ lineno < Len(lines)
    /\ ast_eval
    /\ LET evaluated == eval_program(environment, lines[lineno + 1])
       IN  /\ environment' = evaluated.heap
           /\ out' = CASE evaluated.st = "ok" ->
                            IF is_nil(evaluated.val) THEN out
                            ELSE Append(out, [kind |-> "value", val |-> evaluated.val])
                       [] evaluated.st = "err" ->
                            Append(out, [kind |-> "error", val |-> evaluated.msg])
                       [] OTHER -> out
           /\ pc' = IF evaluated.st = "panic" THEN "crashed" ELSE "prompt"
    /\ lineno' = lineno + 1
    /\ UNCHANGED <<lines, ast_eval, symtab, constants, globals, compiler, vm>>

\* A line is read and compiled: a compile error is printed and run_prompt
\* returns; otherwise a machine is built over the shared globals.
CompileLine ==
    /\ UNCHANGED units
    /\ pc = "prompt"
    /\ lineno < Len(lines)
    /\ ~ast_eval
    /\ LET c == compile(new_with_state(symtab, constants), lines[lineno + 1])
       IN  /\ compiler' = c
           /\ IF c.err # ""
              THEN /\ out' = Append(out, [kind |-> "Compilation error", val |-> c.err])
                   /\ pc' = "exited"
                   /\ vm' = vm
              ELSE /\ out' = out
                   /\ pc' = "running"
                   /\ vm' = new_with_global_store(bytecode(c), globals)
    /\ lineno' = lineno + 1
    /\ UNCHANGED <<lines, ast_eval, symtab, constants, globals, environment>>

\* One turn of the loop of vm.run.
Step ==
    /\ UNCHANGED units
    /\ pc = "running"
    /\ vm.status = "running"
    /\ Len(vm.frames) <= MaxFrames
    /\ vm' = run_step(vm)
    /\ UNCHANGED <<lines, lineno, ast_eval, pc, symtab, constants, globals, environment,
                   compiler, out>>

\* vm.run returned Ok: the last popped value is printed, and the globals,
\* the symbol table and the constants are kept for the next line.
RunOk ==
    /\ UNCHANGED units
    /\ pc = "running"
    /\ vm.status = "done"
    /\ IF last_popped(vm).k = "Panic"
       THEN /\ pc' = "crashed"
            /\ UNCHANGED <<out, globals, symtab, constants>>
       ELSE /\ pc' = "prompt"
            /\ out' = Append(out, [kind |-> "value", val |-> last_popped(vm)])
            /\ globals' = vm.globals
            /\ symtab' = compiler.symtab
            /\ constants' = compiler.constants
    /\ UNCHANGED <<lines, lineno, ast_eval, environment, compiler, vm>>

\* vm.run returned an error: it is printed and run_prompt returns.
RunErr ==
    /\ UNCHANGED units
    /\ pc = "running"
    /\ vm.status = "error"
    /\ out' = Append(out, [kind |-> "vm error", val |-> vm.error])
    /\ pc' = "exited"
    /\ UNCHANGED <<lines, lineno, ast_eval, symtab, constants, globals, environment,
                   compiler, vm>>

\* vm.run panicked.
RunPanic ==
    /\ UNCHANGED units
    /\ pc = "running"
    /\ vm.status = "panic"
    /\ pc' = "crashed"
    /\ UNCHANGED <<lines, lineno, ast_eval, symtab, constants, globals, environment,
                   compiler, vm, out>>

\* The end of the input: run_prompt prints its farewell and returns.
EndOfInput ==
    /\ UNCHANGED units
    /\ pc = "prompt"
    /\ lineno = Len(lines)
    /\ pc' = "exited"
    /\ UNCHANGED <<lines, lineno, ast_eval, symtab, constants, globals, environment,
                   compiler, vm, out>>

Next ==
    \/ EvalLine
    \/ CompileLine
    \/ Step
    \/ RunOk
    \/ RunErr
    \/ RunPanic
    \/ EndOfInput

Spec == Init /\ [][Next]_vars

(***************************************************************************)
(* The symbol table on its own (compiler/symtab.rs as compiler/            *)
(* symtab_test.rs and the compiler use it): tables are entered and left as *)
(* the compiler enters and leaves a scope, and names are defined and       *)
(* resolved in the table in use.                                           *)
(***************************************************************************)
\* The deepest chain of tables.
MaxDepth == 4

\* The most define calls on one table.
MaxDefinitions == 2

\* The names defined, and the names resolved: "zz" is never defined.
DefinedNames == {"a", "b"}

ResolvedNames == DefinedNames \cup {"len", "zz"}

\* The driver's variables at rest.
DriverIdle ==
    /\ lines = <<>>
    /\ lineno = 0
    /\ ast_eval = FALSE
    /\ pc = "units"
    /\ symtab = <<EmptyTable>>
    /\ constants = <<>>
    /\ globals = NoGlobals
    /\ environment = NewHeap
    /\ compiler = new_compiler
    /\ vm = NoVM
    /\ out = <<>>

driver == <<lines, lineno, ast_eval, pc, symtab, constants, globals, environment,
            compiler, vm, out>>

\* A compiler whose symbol table is the chain given, one scope for each table.
CompilerOn(tabs) ==
    [new_compiler EXCEPT !.symtab = tabs,
                         !.scopes = [i \in 1..Len(tabs) |-> NewScope],
                         !.scope_index = Len(tabs) - 1]

\* The most calls made on the chain of tables in one run.
MaxCalls == 8

Called(op, name, r) ==
    [op |-> op, name |-> name, before |-> table, found |-> r.found, sym |-> r.sym,
     n |-> call.n + 1]

TabInit == DriverIdle /\ UnitsIdle

TabDefine ==
    /\ call.n < MaxCalls
    /\ defined[Len(table)] < MaxDefinitions
    /\ \E name \in DefinedNames :
          /\ table' = define(table, name).tabs
          /\ call' = Called("define", name, [found |-> TRUE, sym |-> define(table, name).sym])
    /\ defined' = [defined EXCEPT ![Len(table)] = @ + 1]
    /\ UNCHANGED <<driver, codec, front, bench, format>>

\* The compiler defines a function's name first thing in the scope entered.
TabDefineFunctionName ==
    /\ call.n < MaxCalls
    /\ Last(table).store = EmptyStore
    /\ \E name \in {"a"} :
          /\ table' = define_function_name(table, name).tabs
          /\ call' = Called("define_function_name", name,
                            [found |-> TRUE, sym |-> define_function_name(table, name).sym])
    /\ UNCHANGED <<driver, defined, codec, front, bench, format>>

\* The built-ins are defined in the outermost table, before any scope is entered.
TabDefineBuiltin ==
    /\ call.n < MaxCalls
    /\ Len(table) = 1
    /\ "len" \notin DOMAIN table[1].store
    /\ table' = define_builtin(table, 0, BUILTINS[1]).tabs
    /\ call' = Called("define_builtin", BUILTINS[1],
                      [found |-> TRUE, sym |-> define_builtin(table, 0, BUILTINS[1]).sym])
    /\ UNCHANGED <<driver, defined, codec, front, bench, format>>

TabResolve ==
    /\ call.n < MaxCalls
    /\ \E name \in ResolvedNames :
          /\ table' = resolve(table, name).tabs
          /\ call' = Called("resolve", name, resolve(table, name))
    /\ UNCHANGED <<driver, defined, codec, front, bench, format>>

\* Scopes are entered one inside the other, and then left.
TabEnter ==
    /\ call.n < MaxCalls
    /\ Len(table) < MaxDepth
    /\ Len(defined) = Len(table)
    /\ table' = enter_scope(CompilerOn(table)).symtab
    /\ call' = Called("enter_scope", "", [found |-> FALSE, sym |-> NoSymbol])
    /\ defined' = Append(defined, 0)
    /\ UNCHANGED <<driver, codec, front, bench, format>>

TabLeave ==
    /\ call.n < MaxCalls
    /\ Len(table) > 1
    /\ table' = leave_scope(CompilerOn(table)).symtab
    /\ call' = Called("leave_scope", "", [found |-> FALSE, sym |-> NoSymbol])
    /\ UNCHANGED <<driver, defined, codec, front, bench, format>>

TabNext ==
    \/ TabDefine
    \/ TabDefineFunctionName
    \/ TabDefineBuiltin
    \/ TabResolve
    \/ TabEnter
    \/ TabLeave

TabSpec == TabInit /\ [][TabNext]_vars

(***************************************************************************)
(* The instruction encoding on its own (code/definitions.rs as             *)
(* code/tests.rs uses it): an opcode and its operands are drawn, make      *)
(* encodes them, and read_operands decodes the bytes after the opcode.     *)
(***************************************************************************)
\* The opcodes that take operands.
OpcodesWithOperands ==
    {"Constant", "Jump", "JumpIfFalse", "GetGlobal", "SetGlobal", "GetLocal",
     "SetLocal", "GetBuiltin", "GetFree", "Array", "Map", "Call", "Closure"}

\* The values an operand of a width is drawn from: the least and the
\* greatest of the width, and the values around a byte boundary.
OperandValues(width) == IF width = 2 THEN {0, 1, 255, 256, 65535} ELSE {0, 1, 255}

\* The operand lists of an opcode whose values fit its operand widths.
OperandLists(op) ==
    {xs \in [1..Len(OperandWidths(op)) -> OperandValues(2)] :
        \A i \in 1..Len(xs) : xs[i] \in OperandValues(OperandWidths(op)[i])}

CodecInit ==
    /\ DriverIdle
    /\ FrontIdle
    /\ bench = NoBench
    /\ format = NoFormat
    /\ table = <<EmptyTable>>
    /\ call = NoCall
    /\ defined = <<0>>
    /\ \E op \in OpcodesWithOperands :
          \E xs \in OperandLists(op) :
             codec = [NoCodec EXCEPT !.op = op, !.operands = xs, !.step = "drawn"]

CodecMake ==
    /\ codec.step = "drawn"
    /\ codec' = [codec EXCEPT !.made = make_defined(codec.op, codec.operands, 1),
                              !.step = "made"]
    /\ UNCHANGED <<driver, table, call, defined, front, bench, format>>

\* The decoding that Display for Instructions makes of an instruction.
CodecRead ==
    /\ codec.step = "made"
    /\ codec.made.code # <<>>
    /\ lookup(codec.made.code[1]).ok
    /\ codec' = [codec EXCEPT
                    !.read = read_operands_defined(lookup(codec.made.code[1]),
                                                   Tail(codec.made.code)),
                    !.step = "read"]
    /\ UNCHANGED <<driver, table, call, defined, front, bench, format>>

CodecNext ==
    \/ CodecMake
    \/ CodecRead

CodecSpec == CodecInit /\ [][CodecNext]_vars

(***************************************************************************)
(* The scanner on its own (scanner/mod.rs as scanner/tests.rs uses it): a  *)
(* Scanner is made of a text, and next_token is called again and again.    *)
(***************************************************************************)
\* The longest text, and the number of calls of next_token followed.
MaxText == 3

MaxTokens == MaxText + 3

\* The characters of the texts: the end-of-input sentinel, white space, the
\* start of a comment, a quote, a twin operator, a letter, a digit, and a
\* character no token starts with.
ScanAlphabet == {NUL, " ", "\n", "/", "\"", "=", "a", "1", "@"}

Texts == UNION {[1..n -> ScanAlphabet] : n \in 0..MaxText}

ScanInit ==
    /\ DriverIdle
    /\ table = <<EmptyTable>>
    /\ call = NoCall
    /\ defined = <<0>>
    /\ codec = NoCodec
    /\ bench = NoBench
    /\ format = NoFormat
    /\ \E text \in Texts : scanner = new_scanner(text)
    /\ tokens = <<>>
    /\ parser = NoParser
    /\ parsed = <<>>

ScanNextToken ==
    /\ Len(tokens) < MaxTokens
    /\ scanner' = next_token(scanner).scanner
    /\ tokens' = Append(tokens, next_token(scanner).token)
    /\ UNCHANGED <<driver, table, call, defined, codec, bench, format, parser, parsed>>

ScanNext == ScanNextToken

ScanSpec == ScanInit /\ [][ScanNext]_vars

(***************************************************************************)
(* The parser on its own (parser/mod.rs as parser/tests.rs uses it): a     *)
(* Parser is made of the Scanner of a text, and parse_program parses one   *)
(* statement after the other up to Eof.                                    *)
(***************************************************************************)
BinaryOperators ==
    {<<"+">>, <<"-">>, <<"*">>, <<"/">>, <<"=", "=">>, <<"!", "=">>, <<"<">>, <<">">>}

PrefixOperators == {<<"-">>, <<"!">>}

\* a op1 b op2 c
TwoOperators(op1, op2) == <<"a">> \o op1 \o <<"b">> \o op2 \o <<"c">>

\* -a op b, and a op -b
PrefixThenBinary(pre, op) == pre \o <<"a">> \o op \o <<"b">>

BinaryThenPrefix(op, pre) == <<"a">> \o op \o pre \o <<"b">>

\* f(a) op b, and a op f(b)
CallThenBinary(op) == <<"f", "(", "a", ")">> \o op \o <<"b">>

BinaryThenCall(op) == <<"a">> \o op \o <<"f", "(", "b", ")">>

\* return 5;   let x = 5;   if (a) { b } else { c }   fn(x, y) { x }
\* [1, 2]   (a + b) * c   -f(a)   let = 5   // a
StatementTexts ==
    {<<"r", "e", "t", "u", "r", "n", " ", "5", ";">>,
     <<"l", "e", "t", " ", "x", " ", "=", " ", "5", ";">>,
     <<"i", "f", " ", "(", "a", ")", " ", "{", " ", "b", " ", "}", " ",
       "e", "l", "s", "e", " ", "{", " ", "c", " ", "}">>,
     <<"f", "n", "(", "x", ",", " ", "y", ")", " ", "{", " ", "x", " ", "}">>,
     <<"[", "1", ",", " ", "2", "]">>,
     <<"(", "a", " ", "+", " ", "b", ")", " ", "*", " ", "c">>,
     <<"-", "f", "(", "a", ")">>,
     <<"l", "e", "t", " ", "=", " ", "5">>,
     <<"/", "/", " ", "a">>}

\* The longest sequence of tokens drawn.
MaxParseTokens == 3

\* let  a  =  5  ;  (  )  {  }  fn  ,  if
TokenTexts ==
    {<<"l", "e", "t">>, <<"a">>, <<"=">>, <<"5">>, <<";">>, <<"(">>, <<")">>, <<"{">>,
     <<"}">>, <<"f", "n">>, <<",">>, <<"i", "f">>}

\* The tokens of a sequence, a space after each.
RECURSIVE Spaced(_)
Spaced(ts) == IF ts = <<>> THEN <<>> ELSE Head(ts) \o <<" ">> \o Spaced(Tail(ts))

\* Every sequence of up to MaxParseTokens tokens.
TokenSequences == {Spaced(ts) : ts \in UNION {[1..n -> TokenTexts] : n \in 0..MaxParseTokens}}

\* let = 5; let = 6;
TwoFaultyLets ==
    <<"l", "e", "t", " ", "=", " ", "5", ";", " ", "l", "e", "t", " ", "=", " ", "6", ";">>

ParseTexts ==
    {TwoOperators(op1, op2) : op1 \in BinaryOperators, op2 \in BinaryOperators}
    \cup {PrefixThenBinary(pre, op) : pre \in PrefixOperators, op \in BinaryOperators}
    \cup {BinaryThenPrefix(op, pre) : op \in BinaryOperators, pre \in PrefixOperators}
    \cup {CallThenBinary(op) : op \in BinaryOperators}
    \cup {BinaryThenCall(op) : op \in BinaryOperators}
    \cup StatementTexts
    \cup TokenSequences
    \cup {TwoFaultyLets}

ParseInit ==
    /\ DriverIdle
    /\ table = <<EmptyTable>>
    /\ call = NoCall
    /\ defined = <<0>>
    /\ codec = NoCodec
    /\ bench = NoBench
    /\ format = NoFormat
    /\ \E text \in ParseTexts : scanner = new_scanner(text)
    /\ tokens = <<>>
    /\ parser = NoParser
    /\ parsed = <<>>

\* Parser::new(scanner)
ParseNew ==
    /\ parser = NoParser
    /\ parser' = new_parser(scanner)
    /\ UNCHANGED <<driver, table, call, defined, codec, bench, format, scanner, tokens, parsed>>

\* One turn of the loop of parse_program.
ParseStatement ==
    /\ parser # NoParser
    /\ parser.current.ttype # "Eof"
    /\ parser' = advance(parse_statement(parser).p)
    /\ parsed' = Append(parsed, parse_statement(parser).e)
    /\ UNCHANGED <<driver, table, call, defined, codec, bench, format, scanner, tokens>>

ParseNext == ParseNew \/ ParseStatement

ParseSpec == ParseInit /\ [][ParseNext]_vars

(***************************************************************************)
(* The compiler's buffers on their own (compiler/mod.rs as                 *)
(* compiler/tests.rs test_compiler_scopes uses it): statements are         *)
(* compiled and scopes entered and left on a compiler that stands in the   *)
(* scope of a function after a number of let statements.                   *)
(***************************************************************************)
\* The most calls made on the compiler in one run, and the deepest scope.
MaxBenchCalls == 3

MaxBenchDepth == 3

\* The numbers of let statements the function has compiled so far.
LocalCounts == {0, 1, 255, 256}

\* The name of the i-th local of the function.
LocalName(i) == "v" \o ToString(i)

\* The table of the function after n statements let v<i> = 0.
LocalsTable(n) ==
    [store |-> [name \in {LocalName(i) : i \in 0..(n - 1)} |->
                  Symbol(name, "Local", CHOOSE i \in 0..(n - 1) : LocalName(i) = name)],
     num_definitions |-> n, free_symbols |-> <<>>]

\* The buffer of the function after the same statements: Constant i and
\* SetLocal i for each of them.
LocalsCode(n) ==
    [j \in 1..(5 * n) |->
        CASE (j - 1) % 5 = 0 -> OpByte("Constant")
          [] (j - 1) % 5 = 1 -> ((j - 1) \div 5) \div 256
          [] (j - 1) % 5 = 2 -> ((j - 1) \div 5) % 256
          [] (j - 1) % 5 = 3 -> OpByte("SetLocal")
          [] OTHER -> (j - 1) \div 5]

LocalsScope(n) ==
    IF n = 0 THEN NewScope
    ELSE [instructions |-> Instructions(LocalsCode(n), Fill(5 * n, 1)),
          last_ins |-> EmittedInstruction("SetLocal", 5 * n - 2),
          prev_ins |-> EmittedInstruction("Constant", 5 * n - 5)]

\* The compiler in the scope of a function, n let statements compiled.
CompilerAfterLets(n) ==
    [enter_scope(new_compiler) EXCEPT !.constants = Fill(n, Number(0)),
                                      !.symtab[2] = LocalsTable(n),
                                      !.scopes[2] = LocalsScope(n)]

Benched(op, name, returned) ==
    [op |-> op, name |-> name, saved |-> new_compiler,
     returned |-> returned, n |-> bench.last.n + 1]

BenchInit ==
    /\ DriverIdle
    /\ FrontIdle
    /\ table = <<EmptyTable>>
    /\ call = NoCall
    /\ defined = <<0>>
    /\ codec = NoCodec
    /\ format = NoFormat
    /\ \E n \in LocalCounts :
          bench = [c |-> CompilerAfterLets(n), entered |-> <<new_compiler>>, last |-> NoLast]

\* A let statement is compiled: its value, define, and the store emitted.
BenchLet ==
    /\ bench.last.n < MaxBenchCalls
    /\ \E name \in {"a", LocalName(Last(bench.c.symtab).num_definitions)} :
          bench' = [bench EXCEPT
                      !.c = compile_statement(bench.c, SLet(name, ENum(0))),
                      !.last = Benched("let", name, NoInstructions)]
    /\ UNCHANGED <<driver, table, call, defined, codec, front, format>>

\* An expression statement is compiled: a number, or an if expression with
\* or without an else branch.
BenchExpr ==
    /\ bench.last.n < MaxBenchCalls
    /\ \E e \in {ENum(1), EIf(EBool(TRUE), <<SExpr(ENum(1))>>),
                  EIfElse(EBool(TRUE), <<SExpr(ENum(1))>>, <<>>)} :
          bench' = [bench EXCEPT
                      !.c = compile_statement(bench.c, SExpr(e)),
                      !.last = Benched("expr", "", NoInstructions)]
    /\ UNCHANGED <<driver, table, call, defined, codec, front, format>>

\* One instruction is emitted as the compiler emits them, with one operand
\* whether the opcode takes one or not.
BenchEmit ==
    /\ bench.last.n < MaxBenchCalls
    /\ \E op \in {"Pop", "Jump", "Call"} :
          bench' = [bench EXCEPT !.c = emit(bench.c, op, <<0>>, 2),
                                !.last = Benched("emit", op, NoInstructions)]
    /\ UNCHANGED <<driver, table, call, defined, codec, front, format>>

\* An identifier is compiled: resolve, which makes a local of an enclosing
\* function a free symbol of the tables in between, and the load emitted.
BenchIdent ==
    /\ bench.last.n < MaxBenchCalls
    /\ \E name \in {"a", LocalName(0)} :
          bench' = [bench EXCEPT
                      !.c = compile_statement(bench.c, SExpr(EIdent(name))),
                      !.last = Benched("ident", name, NoInstructions)]
    /\ UNCHANGED <<driver, table, call, defined, codec, front, format>>

BenchEnter ==
    /\ bench.last.n < MaxBenchCalls
    /\ bench.c.scope_index < MaxBenchDepth
    /\ bench' = [bench EXCEPT !.c = enter_scope(bench.c),
                              !.entered = Append(bench.entered, bench.c),
                              !.last = Benched("enter_scope", "", NoInstructions)]
    /\ UNCHANGED <<driver, table, call, defined, codec, front, format>>

\* leave_scope returns the buffer of the scope it leaves; saved is the
\* compiler as it was before the matching enter_scope.
BenchLeave ==
    /\ bench.last.n < MaxBenchCalls
    /\ bench.c.scope_index > 0
    /\ bench' = [bench EXCEPT !.c = leave_scope(bench.c),
                              !.entered = Front(bench.entered),
                              !.last = [Benched("leave_scope", "",
                                                get_curr_instructions(bench.c))
                                          EXCEPT !.saved = Last(bench.entered)]]
    /\ UNCHANGED <<driver, table, call, defined, codec, front, format>>

\* The end of a function body: the last Pop is made a ReturnValue.
BenchReplaceLastPop ==
    /\ bench.last.n < MaxBenchCalls
    /\ is_last_instruction(bench.c, "Pop")
    /\ bench' = [bench EXCEPT !.c = replace_last_pop_with_return(bench.c),
                              !.last = Benched("replace_last_pop_with_return", "",
                                               NoInstructions)]
    /\ UNCHANGED <<driver, table, call, defined, codec, front, format>>

\* The end of a branch of an if expression: the last Pop is removed.
BenchRemoveLastPop ==
    /\ bench.last.n < MaxBenchCalls
    /\ is_last_instruction(bench.c, "Pop")
    /\ bench' = [bench EXCEPT !.c = remove_last_pop(bench.c),
                              !.last = Benched("remove_last_pop", "", NoInstructions)]
    /\ UNCHANGED <<driver, table, call, defined, codec, front, format>>

BenchNext ==
    \/ BenchLet
    \/ BenchExpr
    \/ BenchEmit
    \/ BenchIdent
    \/ BenchEnter
    \/ BenchLeave
    \/ BenchReplaceLastPop
    \/ BenchRemoveLastPop

BenchSpec == BenchInit /\ [][BenchNext]_vars

(***************************************************************************)
(* The format built-in: format_buf of common/builtins/print.rs.  Strings   *)
(* are sequences of characters, and the Collector is the concatenation of *)
(* the strings written to it.                                              *)
(***************************************************************************)
\* str::parse::<usize>: decimal digits after an optional plus sign.
RECURSIVE DecimalValue(_, _)
DecimalValue(s, acc) ==
    IF s = <<>> THEN acc ELSE DecimalValue(Tail(s), 10 * acc + DigitValue[Head(s)])

parse_usize(s) ==
    LET digits == IF s # <<>> /\ Head(s) = "+" THEN Tail(s) ELSE s IN
    IF digits # <<>> /\ \A i \in 1..Len(digits) : digits[i] \in Digits
    THEN Ok(DecimalValue(digits, 0))
    ELSE Err("invalid digit found in string")

LowerDigits == <<"0", "1", "2", "3", "4", "5", "6", "7", "8", "9", "a", "b", "c", "d", "e", "f">>

UpperDigits == <<"0", "1", "2", "3", "4", "5", "6", "7", "8", "9", "A", "B", "C", "D", "E", "F">>

\* The digits of a natural number to a base.
RECURSIVE Radix(_, _, _)
Radix(n, base, digits) ==
    IF n < base THEN <<digits[n + 1]>>
    ELSE Radix(n \div base, base, digits) \o <<digits[(n % base) + 1]>>

\* `*num as usize` of a whole number: the cast saturates at zero.
AsUsize(n) == IF n < 0 THEN 0 ELSE n

\* Display for Object, for the values that the format arguments are drawn
\* from.
Displayed(obj) ==
    CASE obj.k = "Num" ->
           IF obj.n < 0 THEN <<"-">> \o Radix(0 - obj.n, 10, LowerDigits)
           ELSE Radix(obj.n, 10, LowerDigits)
      [] obj.k = "Str" -> obj.s
      [] obj.k = "Bool" -> IF obj.b THEN <<"t", "r", "u", "e">> ELSE <<"f", "a", "l", "s", "e">>
      [] OTHER -> <<"n", "i", "l">>

\* The match on num_fmt in format_obj.
formatted_as(num_fmt, obj) ==
    CASE num_fmt = "Boolean" -> Radix(AsUsize(obj.n), 2, LowerDigits)
      [] num_fmt = "Octal" -> Radix(AsUsize(obj.n), 8, LowerDigits)
      [] num_fmt = "Hex" -> Radix(AsUsize(obj.n), 16, LowerDigits)
      [] num_fmt = "HexaDecimal" -> Radix(AsUsize(obj.n), 16, UpperDigits)
      [] OTHER -> Displayed(obj)

\* The padding and the justification of format_obj.
justified(collector, padding, justify, width, formatted, obj) ==
    LET padded == Repeat(padding, width - Len(formatted))
        side == IF justify # "Default" THEN justify
                ELSE IF obj.k = "Num" THEN "Right" ELSE "Left"
    IN  IF side = "Left" THEN collector \o formatted \o padded
        ELSE collector \o padded \o formatted

format_obj(collector, padding, justify, width_str, num_fmt, obj) ==
    LET width == IF width_str = <<>> THEN Ok(0) ELSE parse_usize(width_str) IN
    IF ~width.ok THEN Err("Failed to parse width")
    ELSE IF num_fmt = "Boolean" /\ obj.k # "Num" THEN Err("Can't format non-number as binary")
    ELSE IF num_fmt = "Octal" /\ obj.k # "Num" THEN Err("Can't format non-number as octal")
    ELSE IF num_fmt \in {"Hex", "HexaDecimal"} /\ obj.k # "Num"
         THEN Err("Can't format non-number as hex")
    ELSE Ok(justified(collector, IF padding = <<>> THEN <<" ">> ELSE padding, justify,
                      width.val, formatted_as(num_fmt, obj), obj))

\* The locals of format_buf before its loop.
new_format_state ==
    [collector |-> <<>>, idx_fmt |-> 0, idx_arg |-> 1, in_spec |-> FALSE,
     in_spec_format |-> FALSE, curr_spec_just |-> "Default", curr_spec_width |-> <<>>,
     curr_spec_padding |-> <<>>, curr_spec_idx |-> <<>>, num_fmt |-> "None"]

\* The locals after a placeholder has been printed to the collector.
after_placeholder(f, collector, idx_arg) ==
    [new_format_state EXCEPT !.collector = collector, !.idx_fmt = f.idx_fmt + 1,
                             !.idx_arg = idx_arg]

\* The placeholder is closed: the argument it names is printed.  The
\* outcome is the error returned, or the locals the loop goes on with.
close_placeholder(args, f) ==
    IF f.idx_arg >= Len(args)
    THEN [ok |-> FALSE, err |-> Err("positional arguments exceeded the count")]
    ELSE IF f.curr_spec_idx = <<>>
    THEN LET r == format_obj(f.collector, f.curr_spec_padding, f.curr_spec_just,
                             f.curr_spec_width, f.num_fmt, args[f.idx_arg + 1])
         IN  IF r.ok THEN [ok |-> TRUE, f |-> after_placeholder(f, r.val, f.idx_arg + 1)]
             ELSE [ok |-> FALSE, err |-> r]
    ELSE LET parsed_idx == parse_usize(f.curr_spec_idx)
             idx_print == parsed_idx.val + 1
         IN  IF ~parsed_idx.ok THEN [ok |-> FALSE, err |-> parsed_idx]
             ELSE IF idx_print >= Len(args)
             THEN [ok |-> FALSE,
                   err |-> Err("positional argument index exceeded the count")]
             ELSE LET r == format_obj(f.collector, f.curr_spec_padding, f.curr_spec_just,
                                      f.curr_spec_width, f.num_fmt, args[idx_print + 1])
                  IN  IF r.ok THEN [ok |-> TRUE, f |-> after_placeholder(f, r.val, f.idx_arg)]
                      ELSE [ok |-> FALSE, err |-> r]

\* A character inside a placeholder that is neither brace.
in_placeholder(f, curr) ==
    IF curr = ":" THEN [f EXCEPT !.in_spec_format = TRUE, !.idx_fmt = @ + 1]
    ELSE IF f.in_spec_format /\ curr \in {"<", ">"}
    THEN [f EXCEPT !.curr_spec_padding = f.curr_spec_width, !.curr_spec_width = <<>>,
                   !.idx_fmt = @ + 1,
                   !.curr_spec_just = IF curr = "<" THEN "Left" ELSE "Right"]
    ELSE CASE curr = "b" -> [f EXCEPT !.num_fmt = "Boolean", !.idx_fmt = @ + 1]
           [] curr = "o" -> [f EXCEPT !.num_fmt = "Octal", !.idx_fmt = @ + 1]
           [] curr = "x" -> [f EXCEPT !.num_fmt = "Hex", !.idx_fmt = @ + 1]
           [] curr = "X" -> [f EXCEPT !.num_fmt = "HexaDecimal", !.idx_fmt = @ + 1]
           [] OTHER ->
                IF f.in_spec_format
                THEN [f EXCEPT !.curr_spec_width = Append(@, curr), !.num_fmt = "None",
                               !.idx_fmt = @ + 1]
                ELSE [f EXCEPT !.curr_spec_idx = Append(@, curr), !.num_fmt = "None",
                               !.idx_fmt = @ + 1]

\* One turn of the loop of format_buf.
format_turn(args, parts, f) ==
    LET curr == parts[f.idx_fmt + 1]
        next == IF f.idx_fmt < Len(parts) - 1 THEN parts[f.idx_fmt + 2] ELSE "NUL"
    IN  IF curr = "{"
        THEN IF next = "{"
             THEN [ok |-> TRUE,
                   f |-> [f EXCEPT !.collector = Append(@, "{"), !.idx_fmt = @ + 2]]
             ELSE [ok |-> TRUE, f |-> [f EXCEPT !.in_spec = TRUE, !.idx_fmt = @ + 1]]
        ELSE IF curr = "}"
        THEN IF next = "}"
             THEN [ok |-> TRUE,
                   f |-> [f EXCEPT !.collector = Append(@, "}"), !.idx_fmt = @ + 2]]
             ELSE close_placeholder(args, f)
        ELSE IF f.in_spec THEN [ok |-> TRUE, f |-> in_placeholder(f, curr)]
        ELSE [ok |-> TRUE, f |-> [f EXCEPT !.collector = Append(@, curr), !.idx_fmt = @ + 1]]

RECURSIVE format_loop(_, _, _)
RECURSIVE format_continue(_, _, _)
format_loop(args, parts, f) ==
    IF f.idx_fmt >= Len(parts) THEN Ok(f.collector)
    ELSE format_continue(args, parts, format_turn(args, parts, f))

format_continue(args, parts, turn) ==
    IF turn.ok THEN format_loop(args, parts, turn.f) ELSE turn.err

format_buf(args) ==
    IF args = <<>> THEN Err("takes a minimum of one argument")
    ELSE IF args[1].k # "Str" THEN Err("Expected a string or format specifier")
    ELSE format_loop(args, args[1].s, new_format_state)

\* The pieces a format string is made of at most, and the value arguments
\* given with it at most.
MaxPieces == 3

MaxValues == 2

\* The placeholder with no index, the placeholder with the index i, and a
\* character outside the placeholders.
PositionalPiece == <<"{", "}">>

IndexedPiece(i) == <<"{">> \o Radix(i, 10, LowerDigits) \o <<"}">>

LiteralPiece == <<"a">>

ExplicitIndices == {0, 1}

FormatPieces == {PositionalPiece, LiteralPiece} \cup {IndexedPiece(i) : i \in ExplicitIndices}

FormatValues == {Number(7), Str(<<"n">>)}

\* The format string of the pieces.
RECURSIVE Joined(_)
Joined(pieces) == IF pieces = <<>> THEN <<>> ELSE Head(pieces) \o Joined(Tail(pieces))

\* The argument list of a call of format: the format string, then the values.
FormatArgs(pieces, values) == <<Str(Joined(pieces))>> \o values

FormatInit ==
    /\ DriverIdle
    /\ FrontIdle
    /\ table = <<EmptyTable>>
    /\ call = NoCall
    /\ defined = <<0>>
    /\ codec = NoCodec
    /\ bench = NoBench
    /\ \E pieces \in UNION {[1..n -> FormatPieces] : n \in 0..MaxPieces} :
       \E values \in UNION {[1..n -> FormatValues] : n \in 0..MaxValues} :
          format = [pieces |-> pieces, values |-> values, result |-> Err(""),
                    step |-> "args"]

\* format_buf is called with the format string and the values.
FormatBuf ==
    /\ format.step = "args"
    /\ format' = [format EXCEPT
                    !.result = format_buf(FormatArgs(format.pieces, format.values)),
                    !.step = "done"]
    /\ UNCHANGED <<driver, table, call, defined, codec, front, bench>>

\* format_buf is called with no argument, or with a first argument that is
\* no string.
FormatBufOther ==
    /\ format.step = "args"
    /\ format.pieces = <<>>
    /\ format' = [format EXCEPT !.result = format_buf(format.values), !.step = "other"]
    /\ UNCHANGED <<driver, table, call, defined, codec, front, bench>>

FormatNext ==
    \/ FormatBuf
    \/ FormatBufOther

FormatSpec == FormatInit /\ [][FormatNext]_vars

(***************************************************************************)
(* The properties.                                                         *)
(***************************************************************************)
\* The outcome of the evaluator on the first line of the input.
Evaluated == eval_program(NewHeap, lines[1])

\* A function is one value to the eye, whichever back-end made it.
SameValue(a, b) ==
    IF a.k \in {"Clos", "Fn", "Func"} THEN b.k \in {"Clos", "Fn", "Func"} ELSE a = b

\* C1: when the machine has run a compiled program to its end with no
\* runtime error, the stack pointer is 0.
C1_StackBalanced == vm.status = "done" => vm.sp = 0

\* A program of lets, an if expression and nested calls has run to its end.
C1_Witness ==
    /\ lines = <<PRecursiveNested>>
    /\ vm.status = "done"
    /\ pc = "prompt"
    /\ out = <<[kind |-> "value", val |-> Number(0)]>>

\* A well-typed program: the evaluator yields a value for it, and it ends
\* with an expression or a return statement.
WellTyped(program) ==
    /\ program # <<>>
    /\ Last(program).s \in {"Expr", "Return"}
    /\ eval_program(NewHeap, program).st = "ok"

\* C2: for a well-typed program the value the machine yields (compile, run,
\* last popped value) is the value the evaluator yields for the same program.
C2_BackendsAgree ==
    (~ast_eval /\ Len(lines) = 1 /\ lineno = 1 /\ pc # "running" /\ WellTyped(lines[1]))
        => /\ pc # "crashed"
           /\ out # <<>>
           /\ out[1].kind = "value"
           /\ SameValue(out[1].val, Evaluated.val)

\* The only statement of the line is an if expression.
OnlyAnIf(program) ==
    Len(program) = 1 /\ program[1].s = "Expr" /\ program[1].value.t = "If"

\* C3: when control reaches the instruction after an if expression, the
\* stack is one value higher than it was before the condition, on either
\* branch.  The if expression is the only statement of the program, so that
\* the stack was empty before it and the instruction after it is the last Pop.
C3_IfLeavesOneValue ==
    (/\ pc = "running"
     /\ vm.status = "running"
     /\ Len(lines) = 1
     /\ OnlyAnIf(lines[1])
     /\ CurFrame(vm).ip = Len(CurFrame(vm).cl.func.instructions.code) - 1)
        => vm.sp = 1

\* The machine is about to execute an instruction of the line.
AtInstruction == pc = "running" /\ vm.status = "running"

Callee == vm.stack[vm.sp - Fetch(vm).operands[1]]

C6_StackWithinCapacity == vm.sp >= 0 /\ vm.sp <= STACK_SIZE

\* C7: after a line that ends in a compile error or a runtime error the
\* REPL goes on to the next line: it stops at the end of the input only.
C7_ReplGoesOn == pc = "exited" => lineno = Len(lines)

\* The names the symbol table binds to a global.
GlobalNames(tabs) ==
    {name \in DOMAIN tabs[1].store : tabs[1].store[name].scope = "Global"}

\* The names the let statements of a line bind.
LetNames(program) == {program[i].name : i \in {j \in 1..Len(program) : program[j].s = "Let"}}

\* A line has run with no error and the REPL takes its state over.
LineDone == pc = "running" /\ pc' = "prompt"

\* C8 as stated: across a line that runs with no error every name bound
\* before resolves to the global index it had, every global keeps the value
\* last stored in it, and the constants only grow.
C8_SameIndexOnLaterLines ==
    [][LineDone =>
         /\ \A name \in GlobalNames(symtab) :
               resolve(symtab', name).sym = resolve(symtab, name).sym
         /\ \A i \in DOMAIN globals : GlobalAt(globals', i) = globals[i]
         /\ IsPrefix(constants, constants')]_vars

\* C8, amended: the same, but for the names the line binds again with let,
\* which resolve to a new global index from then on.
C8_SameIndexUnlessBoundAgain ==
    [][LineDone =>
         /\ \A name \in GlobalNames(symtab) \ LetNames(lines[lineno]) :
               resolve(symtab', name).sym = resolve(symtab, name).sym
         /\ \A name \in GlobalNames(symtab) \cap LetNames(lines[lineno]) :
               resolve(symtab', name).sym.index > resolve(symtab, name).sym.index
         /\ \A i \in DOMAIN globals : GlobalAt(globals', i) = globals[i]
         /\ IsPrefix(constants, constants')]_vars

\* On the third line g, bound on the first, still resolves to global 0 and
\* its code still finds its constant 7, after a second line that added a
\* global and a constant.
C8_Witness ==
    /\ lines = <<LLetG, LLetA1, LCallG>>
    /\ ~ast_eval
    /\ lineno = 3
    /\ pc = "prompt"
    /\ resolve(symtab, "g").sym = Symbol("g", "Global", 0)
    /\ resolve(symtab, "a").sym = Symbol("a", "Global", 1)
    /\ out[3] = [kind |-> "value", val |-> Number(8)]

\* The instructions of the frame in execution.
Decoded == Disassemble(CurFrame(vm).cl.func.instructions.code, 0)

\* The value a load instruction pushes in the frame in execution.
Loaded(ins) ==
    CASE ins.op = "GetLocal" -> vm.stack[CurFrame(vm).bp + ins.operands[1] + 1]
      [] ins.op = "GetFree" -> CurFrame(vm).cl.free[ins.operands[1] + 1]
      [] ins.op = "CurrClosure" -> CurFrame(vm).cl
      [] OTHER -> [k |-> "None"]

\* The k values on top of the stack are those of the k loads that stand
\* before instruction j, in their order.
CapturedInOrder(j, k) ==
    /\ j > k
    /\ vm.sp >= k
    /\ \A i \in 1..k : vm.stack[vm.sp - k + i] = Loaded(Decoded[j - k + i - 1])

\* The programs whose closures capture free variables.
ClosurePrograms == {PClosure, PNestedClosure, PClosureOrder}

RecursivePrograms == {PRecursive, PRecursiveNested}

\* The opcodes of the function of one parameter among the constants: countDown.
CountDownOps ==
    LET f == CHOOSE f \in {compiler.constants[i] : i \in 1..Len(compiler.constants)} :
                f.k = "Fn" /\ f.num_params = 1
    IN  {ins.op : ins \in {Disassemble(f.instructions.code, 0)[i] :
                             i \in 1..Len(Disassemble(f.instructions.code, 0))}}

InstructionLen(code, i) == 1 + Sum(OperandWidths(OpFromByte(code[i + 1])))

\* The offsets at which the instructions of a buffer start, from offset i on.
RECURSIVE Starts(_, _)
Starts(code, i) ==
    IF i >= Len(code) THEN {} ELSE {i} \cup Starts(code, i + InstructionLen(code, i))

\* The opcode of the last instruction of a buffer.
LastOpcode(code) ==
    IF code = <<>> THEN "None"
    ELSE OpFromByte(code[(CHOOSE i \in Starts(code, 0) :
                            \A j \in Starts(code, 0) : j <= i) + 1])

\* The bodies of the function literals the compiler has compiled.
FunctionBodies ==
    {compiler.constants[i].instructions.code :
        i \in {j \in 1..Len(compiler.constants) : compiler.constants[j].k = "Fn"}}

\* The line under compilation holds a function literal whose body is as given.
CompiledBody(body) ==
    /\ ~ast_eval
    /\ lineno = 1
    /\ compiler.err = ""
    /\ \E params \in {<<>>, <<"x">>} : lines[1] = <<SExpr(ECall(EFn(params, body), <<>>))>>
           \/ lines[1] = <<SLet("f", EFn(params, body)), SExpr(ECall(EIdent("f"), <<>>))>>

\* C11: the compiled body of every function literal, whatever its body
\* ends with, has ReturnValue or Return as its last instruction, and the
\* machine never runs to the end of the buffer of a function's frame.
C11_BodyEndsWithReturn ==
    /\ \A code \in FunctionBodies : LastOpcode(code) \in {"ReturnValue", "Return"}
    /\ (vm.status = "done" => Len(vm.frames) = 1)

\* The functions of empty body and of a body ending in a let have been
\* compiled, each to a body that ends with Return.
C11_Witness ==
    /\ (CompiledBody(<<>>) \/ CompiledBody(<<SLet("a", ENum(1))>>))
    /\ FunctionBodies # {}
    /\ \A code \in FunctionBodies : LastOpcode(code) = "Return"
    /\ vm.status = "done"

\* The instruction buffers the compiler has made: the main program and the
\* body of every function.
Buffers == {get_curr_instructions(compiler).code} \cup FunctionBodies

\* The offsets of the jump instructions of a buffer.
Jumps(code) ==
    {i \in Starts(code, 0) : OpFromByte(code[i + 1]) \in {"Jump", "JumpIfFalse"}}

\* The operand of the jump instruction at offset i.
Target(code, i) == code[i + 2] * 256 + code[i + 3]

\* C12: after a compilation without error, the operand of every Jump and
\* JumpIfFalse of every buffer is the offset at which an instruction of
\* the same buffer starts.
C12_JumpsLandOnInstructions ==
    compiler.err = ""
       => \A code \in Buffers :
             \A i \in Jumps(code) : Target(code, i) \in Starts(code, 0)

\* The nested if expressions have been compiled: four jumps in one buffer,
\* and an if inside an if inside a function body.
C12_Witness ==
    /\ ~ast_eval
    /\ compiler.err = ""
    /\ \/ lines = <<PNestedIf>> /\ Cardinality(Jumps(get_curr_instructions(compiler).code)) = 6
       \/ lines = <<PIfReturnInFn>>
            /\ \E code \in FunctionBodies : Cardinality(Jumps(code)) = 4
    /\ vm.status = "done"

\* The depth of the innermost table, at depth d or further out, whose store
\* holds the name; 0 when no table of the chain holds it.
RECURSIVE Holder(_, _, _)
Holder(tabs, d, name) ==
    IF d = 0 THEN 0
    ELSE IF name \in DOMAIN tabs[d].store THEN d
    ELSE Holder(tabs, d - 1, name)

\* What the enclosing scope made of the name of the last call.
Enclosing == resolve(Front(call.before), call.name)

\* The last call was a resolve of a name that the table in use did not hold
\* and that its enclosing scope resolves to a symbol of one of the scopes.
ResolvedOutside(scopes) ==
    /\ call.op = "resolve"
    /\ Len(call.before) > 1
    /\ call.name \notin DOMAIN Last(call.before).store
    /\ Enclosing.found
    /\ Enclosing.sym.scope \in scopes

\* C13: a name that the enclosing scope resolves to a Local or Free symbol
\* is promoted: that symbol is appended to the free-symbol list of the
\* table in use and the result is a Free symbol indexing the new entry;
\* resolving the name again gives the same symbol and changes nothing, so
\* that no list ever names a symbol twice.
C13_PromotionAppendsOnce ==
    /\ ResolvedOutside({"Local", "Free"})
          => /\ Last(table).free_symbols
                   = Append(Last(call.before).free_symbols, Enclosing.sym)
             /\ call.sym = Symbol(call.name, "Free", Len(Last(call.before).free_symbols))
             /\ resolve(table, call.name).sym = call.sym
             /\ resolve(table, call.name).tabs = table
    /\ \A j \in 1..Len(table) :
          \A x, y \in 1..Len(table[j].free_symbols) :
             x # y => table[j].free_symbols[x].name # table[j].free_symbols[y].name

\* b and then a, both local to the enclosing scope, have been resolved: a
\* is the second entry of the list.
C13_Witness ==
    /\ ResolvedOutside({"Local"})
    /\ call.sym = Symbol("a", "Free", 1)
    /\ Len(Last(table).free_symbols) = 2
    /\ Last(table).free_symbols[1].name = "b"
    /\ Last(table).free_symbols[2] = Front(table)[Len(table) - 1].store["a"]

\* The scope S that holds the name of the last call.
HolderOfCall == Holder(call.before, Len(call.before), call.name)

\* C14: when a name that is Local in a scope S is resolved two or more
\* scopes inside S, every scope inside S gets a Free symbol for it and one
\* more entry in its free-symbol list, the symbol of its immediate
\* enclosing scope; and leaving a scope hands back the enclosing tables as
\* they then are.
C14_ChainOfFree ==
    /\ (/\ call.op = "resolve"
        /\ HolderOfCall > 0
        /\ HolderOfCall <= Len(call.before) - 2
        /\ call.before[HolderOfCall].store[call.name].scope = "Local")
          => /\ \A j \in (HolderOfCall + 1)..Len(table) :
                   /\ call.name \in DOMAIN table[j].store
                   /\ table[j].store[call.name].scope = "Free"
                   /\ Len(table[j].free_symbols) = Len(call.before[j].free_symbols) + 1
                   /\ Last(table[j].free_symbols) = table[j - 1].store[call.name]
                   /\ table[j].store[call.name].index = Len(table[j].free_symbols) - 1
             /\ call.sym = Last(table).store[call.name]
             /\ table[HolderOfCall] = call.before[HolderOfCall]
    /\ call.op = "leave_scope" => table = Front(call.before)

\* The innermost of four scopes has been left after it resolved a, local
\* to the second: the third holds a as a Free symbol with the Local in its list.
C14_Witness ==
    /\ call.op = "leave_scope"
    /\ Len(table) = 3
    /\ "a" \in DOMAIN table[2].store /\ table[2].store["a"].scope = "Local"
    /\ "a" \in DOMAIN table[3].store /\ table[3].store["a"].scope = "Free"
    /\ table[3].free_symbols = <<table[2].store["a"]>>
    /\ "a" \in DOMAIN call.before[4].store
    /\ call.before[4].free_symbols = <<table[3].store["a"]>>

\* C15: a name that the enclosing scope resolves to a Function symbol is
\* handed on unchanged, with scope Function and index 0, and the free-symbol
\* list of the table in use is left alone.
C15_FunctionNameForwarded ==
    ResolvedOutside({"Function"})
       => /\ call.sym = Symbol(call.name, "Function", 0)
          /\ table = call.before

\* C16: a name whose innermost holder is the outermost table, as a Global
\* or a Builtin symbol, resolves at any depth to that symbol, and no table
\* of the chain changes.
C16_GlobalAndBuiltinAtAnyDepth ==
    (/\ call.op = "resolve"
     /\ HolderOfCall = 1
     /\ call.before[1].store[call.name].scope \in {"Global", "Builtin"})
       => /\ call.found
          /\ call.sym = call.before[1].store[call.name]
          /\ table = call.before

\* The global a and the built-in len are both in the outermost table, and
\* one of them has been resolved from the fourth scope.
C16_Witness ==
    /\ call.op = "resolve"
    /\ Len(table) = 4
    /\ HolderOfCall = 1
    /\ DOMAIN table[1].store = {"a", "len"}
    /\ call.sym \in {Symbol("a", "Global", 0), Symbol("len", "Builtin", 0)}

\* C17: the resolve of a name that no table of the chain holds finds
\* nothing and changes no table; and the compiler makes a compile error of
\* an identifier of such a name.
C17_UnknownNameChangesNothing ==
    /\ (call.op = "resolve" /\ HolderOfCall = 0)
          => /\ ~call.found
             /\ table = call.before
    /\ \A name \in ResolvedNames :
          Holder(table, Len(table), name) = 0
             => compile_expression(CompilerOn(table), EIdent(name)).err
                   = "undefined variable"

\* zz has been resolved in the third scope, which had promoted a before.
C17_Witness ==
    /\ call.op = "resolve"
    /\ call.name = "zz"
    /\ ~call.found
    /\ Len(table) = 3
    /\ Len(Last(table).free_symbols) = 1
    /\ Last(table).free_symbols[1].name = "a"

\* C18: define gives a Global symbol in a table with no outer table and a
\* Local one otherwise, its index the number of define calls made on the
\* table before; and the count of a table is at all times the number of
\* define calls made on it, whatever else was called.
C18_DefineCountsDefines ==
    /\ call.op = "define"
          => /\ call.sym.name = call.name
             /\ call.sym.scope = (IF Len(call.before) = 1 THEN "Global" ELSE "Local")
             /\ call.sym.index = defined[Len(table)] - 1
    /\ \A j \in 1..Len(table) : table[j].num_definitions = defined[j]

\* a has been defined a second time in an enclosed table, which has a
\* function name and a promoted symbol besides.
C18_Witness ==
    /\ call.op = "define"
    /\ Len(table) = 2
    /\ call.sym = Symbol("a", "Local", 1)
    /\ "a" \in DOMAIN Last(call.before).store
    /\ Last(call.before).store["a"] = Symbol("a", "Local", 0)
    /\ Last(table).free_symbols # <<>>

\* The bytes of a list of operands, each in big-endian order over its width.
RECURSIVE BigEndian(_, _)
BigEndian(xs, widths) ==
    IF xs = <<>> THEN <<>>
    ELSE (IF Head(widths) = 2 THEN <<Head(xs) \div 256, Head(xs) % 256>> ELSE <<Head(xs)>>)
         \o BigEndian(Tail(xs), Tail(widths))

\* C19: for every opcode that takes operands and every operand list that
\* fits its widths, make gives the opcode byte followed by the operands in
\* big-endian order, and read_operands of the bytes after the opcode gives
\* the operands back, with the sum of the widths.
C19_MakeReadRoundTrip ==
    /\ codec.step = "made"
          => /\ codec.made.code = <<OpByte(codec.op)>>
                                      \o BigEndian(codec.operands, OperandWidths(codec.op))
             /\ lookup(codec.made.code[1]).ok
    /\ codec.step = "read"
          => codec.read = <<codec.operands, Sum(OperandWidths(codec.op))>>

\* The keys of the Map n about to execute: every other value of the n on
\* top of the stack.
KeysOnStack ==
    {vm.stack[vm.sp - Fetch(vm).operands[1] + i] :
        i \in {j \in 1..Fetch(vm).operands[1] : j % 2 = 1}}

\* C20: Map 2n with a key on the stack that is no Number, String or Bool
\* is a runtime error, and no Hash is pushed.
C20_InvalidKeyIsError ==
    [][(/\ AtInstruction
        /\ Fetch(vm).op = "Map"
        /\ vm.sp >= Fetch(vm).operands[1]
        /\ \E key \in KeysOnStack : ~is_a_valid_key(key))
          => /\ vm'.status = "error"
             /\ ~(vm'.sp > 0 /\ vm'.stack[vm'.sp].k = "Map")]_vars

\* What indexing coll by key is to give: a value, an error, or "any" where
\* nothing is said (an Array with a key that is no Number or a Number
\* between two positions, a Hash with a key that is not valid).
Indexed(coll, key) ==
    CASE coll.k = "Arr" /\ key.k = "Num" ->
            IF "d" \notin DOMAIN key
            THEN IF key.n >= 0 /\ key.n < Len(coll.elements)
                 THEN [st |-> "value", val |-> coll.elements[key.n + 1]]
                 ELSE [st |-> "value", val |-> Nil]
            ELSE IF key.d = 0 THEN [st |-> "value", val |-> Nil]
            ELSE IF NumBelowZero(key) \/ NumAtLeast(key, Len(coll.elements))
                 THEN [st |-> "value", val |-> Nil]
                 ELSE [st |-> "any", val |-> Nil]
      [] coll.k = "Map" /\ is_a_valid_key(key) ->
            IF key \in DOMAIN coll.pairs THEN [st |-> "value", val |-> coll.pairs[key]]
            ELSE [st |-> "value", val |-> Nil]
      [] coll.k \notin {"Arr", "Map"} -> [st |-> "error", val |-> Nil]
      [] OTHER -> [st |-> "any", val |-> Nil]

\* The line is one index expression whose collection and key have a value.
IndexLine(program) ==
    /\ Len(program) = 1
    /\ program[1].s = "Expr"
    /\ program[1].value.t = "Index"
    /\ eval_expression(NewHeap, 1, program[1].value.left, EvalDepth).st = "ok"
    /\ eval_expression(NewHeap, 1, program[1].value.index, EvalDepth).st = "ok"

IndexedLine(program) ==
    Indexed(eval_expression(NewHeap, 1, program[1].value.left, EvalDepth).val,
            eval_expression(NewHeap, 1, program[1].value.index, EvalDepth).val)

\* The evaluator has printed what the index expression of the line is to give.
EvaluatorIndexes(want) ==
    CASE want.st = "value" ->
            /\ pc # "crashed"
            /\ out = IF is_nil(want.val) THEN <<>>
                     ELSE <<[kind |-> "value", val |-> want.val]>>
      [] want.st = "error" -> pc # "crashed" /\ out # <<>> /\ out[1].kind = "error"
      [] OTHER -> TRUE

\* The step of Index has left what indexing the two values on top of the
\* stack is to give.
MachineIndexes(want) ==
    CASE want.st = "value" ->
            /\ vm'.status \in {"running", "done"}
            /\ vm'.sp = vm.sp - 1
            /\ vm'.stack[vm'.sp] = want.val
      [] want.st = "error" -> vm'.status = "error"
      [] OTHER -> TRUE

\* C21: Index on an Array with a Number key gives the element at that
\* position when 0 <= key < length and Nil for every other Number key; on a
\* Hash it gives the stored value of a valid key that is present and Nil for
\* one that is absent; indexing any other value is a runtime error.  This is
\* stated of the Index step of the machine and of the index expression of
\* the evaluator.
C21_IndexContract ==
    [][/\ (pc = "running" /\ vm.status = "running" /\ Fetch(vm).op = "Index"
           /\ vm.sp >= 2 /\ vm' # vm)
          => MachineIndexes(Indexed(vm.stack[vm.sp - 1], vm.stack[vm.sp]))
       /\ (ast_eval /\ pc = "prompt" /\ lineno = 0 /\ lineno' = 1
           /\ IndexLine(lines[1]))
          => EvaluatorIndexes(IndexedLine(lines[1]))']_vars

\* a > b for two strings, compared character by character.
RECURSIVE LexGreater(_, _)
LexGreater(a, b) ==
    IF a = <<>> THEN FALSE
    ELSE IF b = <<>> THEN TRUE
    ELSE IF Head(a) # Head(b) THEN Head(a) > Head(b)
    ELSE LexGreater(Tail(a), Tail(b))

\* The two values on top of the stack are both Strings or both Numbers.
Comparable(left, right) ==
    \/ left.k = "Str" /\ right.k = "Str"
    \/ /\ left.k = "Num" /\ right.k = "Num"
       /\ "d" \notin DOMAIN left /\ "d" \notin DOMAIN right

Compared(left, right) ==
    IF left.k = "Str" THEN Bool(LexGreater(left.s, right.s)) ELSE Bool(left.n > right.n)

\* C22: Greater applied to two Strings pushes the result of comparing them
\* lexicographically, and applied to two Numbers the result of comparing them
\* numerically; in both cases it pops two values and pushes one Bool.
C22_GreaterCompares ==
    [][(pc = "running" /\ vm.status = "running" /\ Fetch(vm).op = "Greater"
        /\ vm.sp >= 2 /\ Comparable(vm.stack[vm.sp - 1], vm.stack[vm.sp])
        /\ vm' # vm)
       => /\ vm'.status \in {"running", "done"}
          /\ vm'.sp = vm.sp - 1
          /\ vm'.stack[vm'.sp] = Compared(vm.stack[vm.sp - 1], vm.stack[vm.sp])]_vars

\* The scanner as next_token finds it once white space and comments are
\* skipped.
AtToken == skip_comments(skip_whitespace(scanner))

\* A character that starts no token.
Unrecognised(ch) ==
    /\ ch \notin DOMAIN SingleCharacter \cup {NUL, "=", "!", "<", ">", "\""}
    /\ ~is_identifier_first(ch)
    /\ ch \notin Digits

\* Eof has come by the time next_token has been called once more than the
\* text has characters.
EofInTime ==
    Len(tokens) > Len(scanner.input)
        => \E i \in 1..(Len(scanner.input) + 1) : tokens[i].ttype = "Eof"

\* Once Eof has been returned, every later token is Eof.
EofForEver ==
    \A i, j \in 1..Len(tokens) : (i < j /\ tokens[i].ttype = "Eof") => tokens[j].ttype = "Eof"

\* C26: repeated next_token calls return finitely many tokens that are not
\* Eof and then Eof; Eof is produced only when the whole input has been
\* consumed, every later call returns Eof as well, and an unrecognised
\* character yields one Illegal token carrying that character, after which
\* scanning goes on with the next character.
C26_ScannerEndsWithEof ==
    [][tokens' # tokens
       => /\ EofInTime'
          /\ EofForEver'
          /\ Last(tokens').ttype = "Eof" => AtToken.position >= Len(scanner.input)
          /\ Unrecognised(AtToken.ch)
                => /\ Last(tokens') = Token("Illegal", <<AtToken.ch>>, AtToken.line)
                   /\ scanner'.position = AtToken.position + 1
                   /\ scanner'.ch = peek_char(AtToken)]_vars

\* parse_program has returned: the parser has come to Eof.
ParseDone == parser # NoParser /\ parser.current.ttype = "Eof"

\* The precedence of a binary operator, and its name in the tree.
PrecedenceOf(op) == PARSE_RULES[next_token(new_scanner(op)).token.ttype].precedence

\* The one expression statement the parser has made of the text.
ParsedAs(text, expr) == (ParseDone /\ scanner.input = text) => parsed = <<SExpr(expr)>>

\* The grouping of a op1 b op2 c.
Grouping(op1, op2) ==
    IF PrecedenceOf(op2) > PrecedenceOf(op1)
    THEN EBinary(EIdent("a"), Collect(op1), EBinary(EIdent("b"), Collect(op2), EIdent("c")))
    ELSE EBinary(EBinary(EIdent("a"), Collect(op1), EIdent("b")), Collect(op2), EIdent("c"))

\* C23: a op1 b op2 c, of the binary operators + - * / == != < >, is grouped
\* as ((a op1 b) op2 c) when the precedence of op2 is not higher than that of
\* op1 and as (a op1 (b op2 c)) when it is higher; prefix - and ! and call
\* expressions bind tighter than every binary operator.
C23_PrecedenceGroups ==
    /\ \A op1, op2 \in BinaryOperators :
          ParsedAs(TwoOperators(op1, op2), Grouping(op1, op2))
    /\ \A pre \in PrefixOperators, op \in BinaryOperators :
          /\ ParsedAs(PrefixThenBinary(pre, op),
                      EBinary(EUnary(Collect(pre), EIdent("a")), Collect(op), EIdent("b")))
          /\ ParsedAs(BinaryThenPrefix(op, pre),
                      EBinary(EIdent("a"), Collect(op), EUnary(Collect(pre), EIdent("b"))))
    /\ \A op \in BinaryOperators :
          /\ ParsedAs(CallThenBinary(op),
                      EBinary(ECall(EIdent("f"), <<EIdent("a")>>), Collect(op), EIdent("b")))
          /\ ParsedAs(BinaryThenCall(op),
                      EBinary(EIdent("a"), Collect(op), ECall(EIdent("f"), <<EIdent("b")>>)))

\* a - b + c has been parsed as ((a - b) + c).
C23_Witness ==
    /\ ParseDone
    /\ scanner.input = TwoOperators(<<"-">>, <<"+">>)
    /\ parser.errors = <<>>
    /\ parsed = <<SExpr(EBinary(EBinary(EIdent("a"), "-", EIdent("b")), "+", EIdent("c")))>>

\* The symbol table resolves the i-th built-in of the registry to the
\* Builtin symbol of index i - 1.
ResolvesToRegistry(tabs, i) ==
    /\ resolve(tabs, BUILTINS[i]).found
    /\ resolve(tabs, BUILTINS[i]).sym = Symbol(BUILTINS[i], "Builtin", i - 1)

\* C24: for every built-in name, the index to which the compiler's symbol
\* table resolves it is the position of the name in the BUILTINS registry,
\* for a compiler made by Compiler::new() as well as for one made of the
\* state the driver keeps.
C24_BuiltinIndexIsRegistryPosition ==
    \A i \in 1..Len(BUILTINS) :
        /\ pc = "prompt" => ResolvesToRegistry(new_with_state(symtab, constants).symtab, i)
        /\ ResolvesToRegistry(new_compiler.symtab, i)

\* The expressions and the blocks that stand directly inside an expression
\* that is no function literal.
SubExprs(e) ==
    CASE e.t = "Unary" -> <<e.right>>
      [] e.t = "Binary" -> <<e.left, e.right>>
      [] e.t = "If" -> <<e.condition>>
      [] e.t = "Call" -> <<e.func>> \o e.args
      [] e.t = "Array" -> e.elements
      [] e.t = "Hash" ->
            [i \in 1..(2 * Len(e.pairs)) |->
                e.pairs[(i + 1) \div 2][IF i % 2 = 1 THEN 1 ELSE 2]]
      [] e.t = "Index" -> <<e.left, e.index>>
      [] OTHER -> <<>>

SubBlocks(e) == IF e.t = "If" THEN <<e.then_stmt>> \o e.else_stmt ELSE <<>>

\* The number of let statements of a block that bind in the scope of the
\* block: those of the blocks of its if expressions are counted, those of
\* the function literals inside it are not.
RECURSIVE LetsInExpr(_)
RECURSIVE LetsInBlock(_)
LetsInExpr(e) ==
    IF e.t = "Function" THEN 0
    ELSE Sum([i \in 1..Len(SubExprs(e)) |-> LetsInExpr(SubExprs(e)[i])])
         + Sum([i \in 1..Len(SubBlocks(e)) |-> LetsInBlock(SubBlocks(e)[i])])

LetsInBlock(b) ==
    Sum([i \in 1..Len(b) |-> (IF b[i].s = "Let" THEN 1 ELSE 0) + LetsInExpr(b[i].value)])

\* The function literals of an expression and of a block, nested ones included.
RECURSIVE FunctionsInExpr(_)
RECURSIVE FunctionsInBlock(_)
FunctionsInExpr(e) ==
    IF e.t = "Function" THEN {e} \cup FunctionsInBlock(e.body)
    ELSE UNION {FunctionsInExpr(SubExprs(e)[i]) : i \in 1..Len(SubExprs(e))}
         \cup UNION {FunctionsInBlock(SubBlocks(e)[i]) : i \in 1..Len(SubBlocks(e))}

FunctionsInBlock(b) == UNION {FunctionsInExpr(b[i].value) : i \in 1..Len(b)}

\* The define calls made in the scope of a function literal: one for each
\* parameter and one for each let statement.
Defines(func) == Len(func.params) + LetsInBlock(func.body)

\* The compiled functions among the constants of the compiler.
CompiledFunctions ==
    {compiler.constants[i] :
        i \in {j \in 1..Len(compiler.constants) : compiler.constants[j].k = "Fn"}}

\* The operands of the GetLocal and SetLocal instructions of a listing.
LocalOperandsOf(listing) ==
    {listing[i].operands[1] :
        i \in {j \in 1..Len(listing) : listing[j].op \in {"GetLocal", "SetLocal"}}}

LocalOperands(code) == LocalOperandsOf(Disassemble(code, 0))

\* The first line has been compiled with no error.
FirstLineCompiled == ~ast_eval /\ lineno = 1 /\ pc \in {"running", "prompt"} /\ compiler.err = ""

NumLocalsCountDefines ==
    /\ \A func \in CompiledFunctions :
          \A operand \in LocalOperands(func.instructions.code) : operand < func.num_locals
    /\ FirstLineCompiled
          => {<<func.num_params, func.num_locals>> : func \in CompiledFunctions}
               = {<<Len(func.params), Defines(func)>> : func \in FunctionsInBlock(lines[1])}

InFunctionFrame == AtInstruction /\ Len(vm.frames) >= 2

\* C27: while the frame of a function executes, sp never falls below
\* bp + num_locals, whatever function body the compiler accepted: no push
\* and no pop touches a slot of a parameter or a local of the running frame.
C27_LocalsStayBelowSp ==
    InFunctionFrame => vm.sp >= CurFrame(vm).bp + CurFrame(vm).cl.func.num_locals

\* C28: the main frame is never popped, also for a program with a return
\* statement outside every function body: ReturnValue and Return execute
\* only in a frame made by Call, so that no instruction executes on an
\* empty frame stack and sp := bp - 1 is never computed with bp = 0.
C28_MainFrameStays ==
    /\ pc = "running" => Len(vm.frames) >= 1
    /\ (AtInstruction /\ Fetch(vm).op \in {"ReturnValue", "Return"})
          => Len(vm.frames) >= 2 /\ CurFrame(vm).bp > 0

\* The line in execution ends with an expression statement.
EndsWithExpression == lines[lineno] # <<>> /\ Last(lines[lineno]).s = "Expr"

\* C29: after every successful run last_popped reads a slot of the stack
\* that has been written, also after a program that pushes nothing; when
\* the last statement is an expression statement, the run ends with the Pop
\* of that statement and last_popped is the value it popped.
C29_LastPoppedIsWritten ==
    [][/\ (pc' = "running" /\ vm'.status = "done") => last_popped(vm').k # "Panic"
       /\ (AtInstruction /\ vm'.status = "done" /\ EndsWithExpression)
             => Fetch(vm).op = "Pop" /\ last_popped(vm') = Top(vm)]_vars

\* The nested function literal of PNestedSelf is executing: its frame stands
\* on the frame of f, which stands on the main frame.
InNestedLiteral == lines = <<PNestedSelf>> /\ AtInstruction /\ Len(vm.frames) = 3

LastDecoded(c) ==
    read_operands(CurScope(c).last_ins.opcode,
                  Drop(get_curr_instructions(c).code, CurScope(c).last_ins.position + 1))[1]

\* The widest operand that each opcode encodes.
FitsWidths(op, operands) ==
    \A i \in 1..Len(OperandWidths(op)) :
        i <= Len(operands) => operands[i] < (IF OperandWidths(op)[i] = 2 THEN 65536 ELSE 256)

\* C31: every operand the compiler emits fits the width it is encoded in,
\* so the operand decoded equals the value passed to emit; a program that
\* would exceed a width is rejected and not encoded modulo the width.  Here
\* for the store of a let statement, whose operand is the index of the
\* symbol that define returned.
C31_OperandsFitWidths ==
    bench.last.op = "let"
       => \/ bench.c.err # ""
          \/ /\ FitsWidths(CurScope(bench.c).last_ins.opcode,
                            <<Last(bench.c.symtab).store[bench.last.name].index>>)
             /\ LastDecoded(bench.c)
                   = <<Last(bench.c.symtab).store[bench.last.name].index>>

\* The value of a op b over the integers.
Applied(a, op, b) ==
    CASE op = "<" -> Bool(a < b)
      [] op = ">" -> Bool(a > b)
      [] op = "==" -> Bool(a = b)
      [] op = "!=" -> Bool(a # b)
      [] op = "-" -> Number(a - b)
      [] op = "+" -> Number(a + b)
      [] op = "*" -> Number(a * b)

\* The opcode of a binary operator.
OpcodeOf(op) ==
    CASE op = "<" -> "Greater"
      [] op = ">" -> "Greater"
      [] op = "==" -> "Equal"
      [] op = "!=" -> "NotEqual"
      [] op = "-" -> "Sub"
      [] op = "+" -> "Add"
      [] op = "*" -> "Mul"

\* The code of the expression statement a op b with the operands compiled
\* in the order given: the first is constant 0, the second constant 1.
BinaryCode(first, second, op) ==
    [constants |-> <<Number(first), Number(second)>>,
     code |-> make("Constant", <<0>>, 1).code \o make("Constant", <<1>>, 1).code
              \o <<OpByte(OpcodeOf(op)), OpByte("Pop")>>]

\* The line of the machine is a op b.
BinaryLine(a, op, b) == ~ast_eval /\ lines = <<PBinary(a, op, b)>> /\ lineno = 1

\* C32: a < b is compiled as the code for b, the code for a and Greater,
\* and running it yields true exactly when a is less than b; the operands
\* of every other binary operator are compiled left first.
C32_LessIsGreaterSwapped ==
    \A a \in {1, 2}, b \in {1, 2}, op \in ComparedOperators :
        BinaryLine(a, op, b)
          => /\ compiler.err = ""
             /\ bytecode(compiler).constants
                   = BinaryCode(IF op = "<" THEN b ELSE a, IF op = "<" THEN a ELSE b, op).constants
             /\ bytecode(compiler).instructions.code
                   = BinaryCode(IF op = "<" THEN b ELSE a, IF op = "<" THEN a ELSE b, op).code
             /\ pc # "running" => /\ pc \in {"prompt", "exited"}
                                  /\ out = <<[kind |-> "value", val |-> Applied(a, op, b)]>>

\* 1 < 2 has been compiled as 2, 1, Greater and has yielded true.
C32_Witness ==
    /\ BinaryLine(1, "<", 2)
    /\ pc = "prompt"
    /\ compiler.constants = <<Number(2), Number(1)>>
    /\ Disassemble(bytecode(compiler).instructions.code, 0)[3].op = "Greater"
    /\ out = <<[kind |-> "value", val |-> Bool(TRUE)]>>

\* The table in use holds the name as a symbol that define has made.
Shadowing(tabs, name) ==
    /\ name \in DOMAIN Last(tabs).store
    /\ Last(tabs).store[name].scope \in {"Global", "Local"}

\* The step is a define of a name that the table in use holds as the name
\* of its function.
DefineOverFunctionName ==
    /\ call'.op = "define"
    /\ call'.name \in DOMAIN Last(table).store
    /\ Last(table).store[call'.name].scope = "Function"

\* C33: after define_function_name(n) and then define(n) on the same table,
\* every later resolve(n) in that scope returns the symbol that define made,
\* Global or Local with its slot index, and not the Function symbol: define
\* puts its symbol in the place of the Function symbol, no later call on
\* another name changes it, and resolve returns what the store holds.
C33_LetShadowsFunctionName ==
    [][/\ DefineOverFunctionName
            => /\ call'.sym = Symbol(call'.name,
                                     IF Len(table) = 1 THEN "Global" ELSE "Local",
                                     Last(table).num_definitions)
               /\ Last(table').store[call'.name] = call'.sym
               /\ resolve(table', call'.name).found
               /\ resolve(table', call'.name).sym = call'.sym
       /\ \A name \in DefinedNames :
             (/\ Shadowing(table, name)
              /\ Len(table') = Len(table)
              /\ ~(call'.op \in {"define", "define_function_name"} /\ call'.name = name))
                => Last(table').store[name] = Last(table).store[name]
       /\ (call'.op = "resolve" /\ Shadowing(table, call'.name))
            => /\ call'.found
               /\ call'.sym = Last(table).store[call'.name]
               /\ table' = table]_vars

\* In a scope entered, define has just been called on the name of the
\* function, and a resolve of the name gives the Local symbol of slot 0.
C33_Witness ==
    /\ call.op = "define"
    /\ Len(table) = 2
    /\ call.name \in DOMAIN Last(call.before).store
    /\ Last(call.before).store[call.name].scope = "Function"
    /\ resolve(table, call.name).sym = Symbol(call.name, "Local", 0)

\* The machine is about to call the built-in of the name given.
CallsBuiltin(name) ==
    /\ AtInstruction
    /\ Fetch(vm).op = "Call"
    /\ vm.sp > Fetch(vm).operands[1]
    /\ Callee = Builtin(name)

\* The i-th argument of the call about to be made.
Argument(i) == vm.stack[vm.sp - Fetch(vm).operands[1] + i]

\* What the call leaves alone: the globals, the stack below the callee, the
\* closures of the frames with their free variables.
CallKeepsReferences ==
    /\ vm'.status = "running"
    /\ vm'.globals = vm.globals
    /\ Take(vm'.stack, vm.sp - Fetch(vm).operands[1] - 1)
          = Take(vm.stack, vm.sp - Fetch(vm).operands[1] - 1)
    /\ [i \in 1..Len(vm.frames) |-> vm'.frames[i].cl] = [i \in 1..Len(vm.frames) |-> vm.frames[i].cl]

TablesKept(before, after) ==
    /\ Len(after) = Len(before)
    /\ \A d \in 1..Len(before) :
          /\ after[d].num_definitions = before[d].num_definitions
          /\ IsPrefix(before[d].free_symbols, after[d].free_symbols)
          /\ \A name \in DOMAIN before[d].store :
                name \in DOMAIN after[d].store /\ after[d].store[name] = before[d].store[name]

\* C35: enter_scope followed later by the matching leave_scope returns the
\* compiler to the enclosing scope: scope_index, the bytes of the enclosing
\* buffer and its records of the last and the previous instruction are as
\* before enter_scope, what has been emitted in between is in the buffer
\* that leave_scope returns and in no buffer the compiler keeps, and the
\* symbol table in use is the enclosing one again.
C35_LeaveScopeRestores ==
    bench.last.op = "leave_scope"
       => /\ bench.c.scope_index = bench.last.saved.scope_index
          /\ Len(bench.c.scopes) = bench.c.scope_index + 1
          /\ bench.c.scopes = bench.last.saved.scopes
          /\ TablesKept(bench.last.saved.symtab, bench.c.symtab)

\* A scope entered after a let statement has been left with instructions
\* in it: the buffer returned holds them, the enclosing buffer holds the
\* let statement's.
C35_Witness ==
    /\ bench.last.op = "leave_scope"
    /\ bench.c.scope_index = 1
    /\ Len(bench.last.returned.code) > 0
    /\ CurScope(bench.c).last_ins.opcode = "SetLocal"
    /\ Last(bench.c.symtab).num_definitions = 1

\* The line vector of a buffer has one entry for each byte of code.
LinePerByte(ins) == Len(ins.lines) = Len(ins.code)

\* C37: in every instruction buffer the line vector has exactly one entry
\* for each code byte, after any sequence of emit, remove_last_pop,
\* replace_instruction, replace_last_pop_with_return and change_operand.
C37_OneLinePerByte ==
    /\ \A i \in 1..Len(bench.c.scopes) : LinePerByte(bench.c.scopes[i].instructions)
    /\ LinePerByte(bench.last.returned)

\* The last Pop has been removed from a buffer that holds other
\* instructions, whose lines are those of the statements they come from.
C37_Witness ==
    /\ bench.last.op = "remove_last_pop"
    /\ get_curr_instructions(bench.c).code # <<>>
    /\ LinePerByte(get_curr_instructions(bench.c))
    /\ CurScope(bench.c).last_ins.opcode # "Pop"

\* The errors that say a let statement lacks its name.
LetNameErrors(errors) ==
    {i \in 1..Len(errors) : errors[i].msg = [expected |-> "Identifier", got |-> "Assign"]}

\* The tokens that a scanner still yields before Eof.
RECURSIVE CountTokens(_)
CountTokens(s) ==
    IF next_token(s).token.ttype = "Eof" THEN 0
    ELSE 1 + CountTokens(next_token(s).scanner)

\* The tokens that the parser has not consumed yet: the current one, the one
\* it looks ahead at, and those of its scanner.
Pending(p) ==
    IF p.current.ttype = "Eof" THEN 0
    ELSE IF p.peek_next.ttype = "Eof" THEN 1
    ELSE 2 + CountTokens(p.scanner)

\* C36: for every token sequence parse_program terminates, and after it
\* has recorded an error the parser goes on consuming tokens until Eof and
\* does not stop, so that the errors of several statements of one input
\* are all collected in the error list: every turn of the loop consumes a
\* token at least, so that the turns made and the tokens pending never
\* exceed the tokens of the input; the loop ends with every token consumed;
\* and the two faulty let statements of one input leave their two errors.
C36_ParserGoesOnToEof ==
    /\ parser # NoParser
          => Len(parsed) + Pending(parser) <= CountTokens(new_scanner(scanner.input))
    /\ ParseDone => parser.peek_next.ttype = "Eof" /\ CountTokens(parser.scanner) = 0
    /\ (ParseDone /\ scanner.input = TwoFaultyLets)
          => Cardinality(LetNameErrors(parser.errors)) = 2

\* Both faulty let statements of one input have left their error.
C36_Witness ==
    /\ ParseDone
    /\ scanner.input = TwoFaultyLets
    /\ Cardinality(LetNameErrors(parser.errors)) = 2
    /\ Len(parser.errors) >= 2

\* The explicit indices of the placeholders of a format string.
IndicesNamed(pieces) ==
    {i \in ExplicitIndices : \E j \in 1..Len(pieces) : pieces[j] = IndexedPiece(i)}

\* The placeholders with no index of a format string.
PositionalsOf(pieces) == {j \in 1..Len(pieces) : pieces[j] = PositionalPiece}

\* The text of a format string whose k first positional placeholders are
\* printed already: a placeholder with no index prints the next value, and
\* one with the index i prints value i.
RECURSIVE Rendered(_, _, _)
Rendered(pieces, values, k) ==
    IF pieces = <<>> THEN <<>>
    ELSE IF Head(pieces) = PositionalPiece
    THEN Displayed(values[k + 1]) \o Rendered(Tail(pieces), values, k + 1)
    ELSE IF \E i \in ExplicitIndices : Head(pieces) = IndexedPiece(i)
    THEN Displayed(values[(CHOOSE i \in ExplicitIndices : Head(pieces) = IndexedPiece(i)) + 1])
           \o Rendered(Tail(pieces), values, k)
    ELSE Head(pieces) \o Rendered(Tail(pieces), values, k)

\* C38: in format, a placeholder with an explicit index {i} prints value
\* argument i, counted from 0 after the format string, wherever it appears
\* and however often it is repeated, independently of the positional {}
\* placeholders before it, and it is an error only when i is not less than
\* the number of value arguments: a format string whose explicit indices
\* are all below the number of values, and which has no more positional
\* placeholders than there are values, is formatted with no error to the
\* text in which every {i} stands for value i.
C38_IndexedPrintsItsArgument ==
    (/\ format.step = "done"
     /\ IndicesNamed(format.pieces) # {}
     /\ \A i \in IndicesNamed(format.pieces) : i < Len(format.values)
     /\ Cardinality(PositionalsOf(format.pieces)) <= Len(format.values))
        => format.result = Ok(Rendered(format.pieces, format.values, 0))
====
